---- MODULE Spec2Model ----
(***************************************************************************)
(* A model of the MCP gateway server: the dispatcher mcp_gateway, the      *)
(* per-tool handle_action tables, the action handlers of the five tools,   *)
(* and the manifest published by mcp_manifest.                             *)
(*                                                                         *)
(* JSON values are modelled by string literals.  A plain string such as    *)
(* "x" or "github" is the JSON string with that text; the literals below   *)
(* stand for the JSON values that are not non-empty strings.               *)
(***************************************************************************)
EXTENDS Integers, Sequences, FiniteSets, TLC

\* ------------------------------------------------------------------ bounds
\* largest value of the wall clock read by datetime.utcnow()
MaxClock == 1
\* number of distinct values uuid.uuid4() can return in one run
MaxUuids == 1
\* number of rounds of concurrent requests in one run
MaxRounds == 2

\* ------------------------------------------------------- JSON / Python values
Absent == "<absent>"      \* the key is not in the dict
JNull  == "null"          \* JSON null, Python None
JEmpty == ""              \* the empty string
JZero  == "0"             \* the number 0
JFalse == "false"         \* the boolean false
JTrue  == "true"          \* the boolean true
JList  == "[1]"           \* a non-empty JSON array (unhashable in Python)
JDict0 == "{}"            \* the empty JSON object

\* Python truthiness: `not v` holds for None, "", 0, False, [] and {}.
Falsy == {JNull, JEmpty, JZero, JFalse, JDict0, "[]"}
Truthy(v) == v \notin Falsy

\* dict.get(k): the value under k, None when k is not a key.
Get(p, k) == IF k \in DOMAIN p /\ p[k] # Absent THEN p[k] ELSE JNull
\* dict.get(k, d)
GetD(p, k, d) == IF k \in DOMAIN p /\ p[k] # Absent THEN p[k] ELSE d
\* k in dict
Has(p, k) == k \in DOMAIN p /\ p[k] # Absent

\* ------------------------------------------------------------- the registry
\* The tools the if/elif chain of mcp_gateway dispatches to.
GatewayTools == {"github", "gitlab", "gmaps", "memory", "puppeteer"}

\* The keys of each tool's action_handlers dict.
\* (mutant) the github table without its getRepo entry
GithubActions_NoGetRepo == {"listRepos", "searchRepos", "getIssues", "createIssue"}
GithubActions    == {"listRepos", "getRepo", "searchRepos", "getIssues", "createIssue"}
GitlabActions    == {"listProjects", "getProject", "searchProjects", "getIssues",
                     "createIssue", "getPipelines"}
GmapsActions     == {"geocode", "reverseGeocode", "getDirections", "searchPlaces",
                     "getPlaceDetails"}
MemoryActions    == {"get", "set", "delete", "list", "search"}
PuppeteerActions == {"screenshot", "pdf", "extract"}

action_handlers(tool) ==
    CASE tool = "github"    -> GithubActions
      [] tool = "gitlab"    -> GitlabActions
      [] tool = "gmaps"     -> GmapsActions
      [] tool = "memory"    -> MemoryActions
      [] tool = "puppeteer" -> PuppeteerActions
      [] OTHER              -> {}

\* ------------------------------------------------------------- the manifest
\* The dict literal returned by mcp_manifest: for every tool the sequence of
\* its "actions" entries in source order, each with its declared parameters
\* (name and declared default, Absent when none is declared).
Param(n, d) == [name |-> n, default |-> d]
Entry(a, ps) == [action |-> a, parameters |-> ps]

ManifestGithub ==
    << Entry("listRepos",   <<Param("username", Absent)>>),
       Entry("getRepo",     <<Param("owner", Absent), Param("repo", Absent)>>),
       Entry("searchRepos", <<Param("query", Absent)>>),
       Entry("getIssues",   <<Param("owner", Absent), Param("repo", Absent),
                              Param("state", "open")>>),
       Entry("createIssue", <<Param("owner", Absent), Param("repo", Absent),
                              Param("title", Absent), Param("body", Absent)>>) >>
ManifestGitlab ==
    << Entry("listProjects",   << >>),
       Entry("getProject",     <<Param("projectId", Absent)>>),
       Entry("searchProjects", <<Param("query", Absent)>>) >>
ManifestGmaps ==
    << Entry("geocode",        <<Param("address", Absent)>>),
       Entry("reverseGeocode", <<Param("lat", Absent), Param("lng", Absent)>>),
       Entry("getDirections",  <<Param("origin", Absent), Param("destination", Absent),
                                 Param("mode", "driving")>>) >>
ManifestMemory ==
    << Entry("get",    <<Param("key", Absent)>>),
       Entry("set",    <<Param("key", Absent), Param("value", Absent),
                         Param("metadata", JDict0)>>),
       Entry("delete", <<Param("key", Absent)>>),
       Entry("list",   <<Param("filterKey", Absent), Param("limit", "100"),
                         Param("offset", JZero)>>) >>
ManifestPuppeteer ==
    << Entry("screenshot", <<Param("url", Absent), Param("fullPage", JFalse),
                             Param("type", "png")>>),
       Entry("pdf",        <<Param("url", Absent), Param("printBackground", JTrue)>>),
       Entry("extract",    <<Param("url", Absent), Param("selector", Absent)>>) >>

\* manifest["tools"]: tool name -> its entries.
mcp_manifest ==
    [t \in {"github", "gitlab", "gmaps", "memory", "puppeteer"} |->
        CASE t = "github"    -> ManifestGithub
          [] t = "gitlab"    -> ManifestGitlab
          [] t = "gmaps"     -> ManifestGmaps
          [] t = "memory"    -> ManifestMemory
          [] t = "puppeteer" -> ManifestPuppeteer]

ManifestTools == DOMAIN mcp_manifest
\* how many entries of a manifest's "tools" are filed under (tool, action)
CountIn(tools, t, a) ==
    IF t \in DOMAIN tools
    THEN Cardinality({i \in DOMAIN tools[t] : tools[t][i].action = a})
    ELSE 0
ManifestActions(t) ==
    IF t \in ManifestTools
    THEN {mcp_manifest[t][i].action : i \in DOMAIN mcp_manifest[t]}
    ELSE {}

\* ------------------------------------------------- handler results and effects
\* What a Python call does: it returns a value or raises an exception of a
\* class (etype) with a message; fx is the sequence of side effects it
\* performed, st the backend state it leaves.
Return(v, fx, st) == [how |-> "return", value |-> v, etype |-> "", msg |-> << >>,
                      fx |-> fx, st |-> st]
Raise(t, m, fx, st) == [how |-> "raise", value |-> [none |-> TRUE], etype |-> t,
                        msg |-> m, fx |-> fx, st |-> st]

\* Side effects that reach a backend: the network, a subprocess, the database.
BackendEffects == {"http", "subprocess", "query"}
\* Side effects of any kind outside the dispatcher.
Touches(fx, kinds) == \E i \in DOMAIN fx : fx[i] \in kinds

\* ------------------------------------------------------ HTTP backends
\* What the upstream does with one request: the connection fails (net FALSE),
\* or it answers with a status and a body that is JSON or not.
HttpStatuses == {200, 201, 404}
HttpOutcomes == [net : {TRUE}, status : HttpStatuses, json : BOOLEAN]
                \cup {[net |-> FALSE, status |-> 0, json |-> FALSE]}
HttpOk == [net |-> TRUE, status |-> 200, json |-> TRUE]

\* requests.get / requests.post followed by the status check and
\* response.json(), as every HTTP handler does it; ok is the set of status
\* codes the handler accepts, api the name in its error message.
HttpCall(api, ok, e, st) ==
    IF ~e.http.net
    THEN Raise("ConnectionError", <<"connection failed">>, <<"http">>, st)
    ELSE IF ~e.http.json
    THEN Raise("JSONDecodeError", <<"not json">>, <<"http">>, st)
    ELSE IF e.http.status \notin ok
    THEN Raise("Exception", <<api, " API error: ", "<upstream json>">>, <<"http">>, st)
    ELSE Return([upstream |-> api, status |-> e.http.status], <<"http">>, st)

Required(m, st) == Raise("ValueError", <<m>>, << >>, st)

\* ------------------------------------------------------------ github_tool
\* (mutant) list_repos refusing a key it does not know
github_list_repos_Strict(p, e, st) ==
    IF ~Truthy(Get(p, "username")) THEN Required("Username parameter is required", st)
    ELSE IF Has(p, "extra") THEN Required("Unexpected parameter: extra", st)
    ELSE HttpCall("GitHub", {200}, e, st)
github_list_repos(p, e, st) ==
    IF ~Truthy(Get(p, "username")) THEN Required("Username parameter is required", st)
    ELSE HttpCall("GitHub", {200}, e, st)
github_get_repo(p, e, st) ==
    IF ~Truthy(Get(p, "owner")) \/ ~Truthy(Get(p, "repo"))
    THEN Required("Owner and repo parameters are required", st)
    ELSE HttpCall("GitHub", {200}, e, st)
github_search_repos(p, e, st) ==
    IF ~Truthy(Get(p, "query")) THEN Required("Query parameter is required", st)
    ELSE HttpCall("GitHub", {200}, e, st)
github_get_issues(p, e, st) ==
    IF ~Truthy(Get(p, "owner")) \/ ~Truthy(Get(p, "repo"))
    THEN Required("Owner and repo parameters are required", st)
    ELSE HttpCall("GitHub", {200}, e, st)
\* (mutant) create_issue testing the title before owner and repo
github_create_issue_TitleFirst(p, e, st) ==
    IF ~Truthy(Get(p, "title")) THEN Required("Title parameter is required", st)
    ELSE IF ~Truthy(Get(p, "owner")) \/ ~Truthy(Get(p, "repo"))
    THEN Required("Owner and repo parameters are required", st)
    ELSE HttpCall("GitHub", {201, 200}, e, st)
github_create_issue(p, e, st) ==
    IF ~Truthy(Get(p, "owner")) \/ ~Truthy(Get(p, "repo"))
    THEN Required("Owner and repo parameters are required", st)
    ELSE IF ~Truthy(Get(p, "title")) THEN Required("Title parameter is required", st)
    ELSE HttpCall("GitHub", {201, 200}, e, st)

\* ------------------------------------------------------------ gitlab_tool
gitlab_list_projects(p, e, st) == HttpCall("GitLab", {200}, e, st)
gitlab_get_project(p, e, st) ==
    IF ~Truthy(Get(p, "projectId")) THEN Required("Project ID parameter is required", st)
    ELSE HttpCall("GitLab", {200}, e, st)
gitlab_search_projects(p, e, st) ==
    IF ~Truthy(Get(p, "query")) THEN Required("Query parameter is required", st)
    ELSE HttpCall("GitLab", {200}, e, st)
gitlab_get_issues(p, e, st) ==
    IF ~Truthy(Get(p, "projectId")) THEN Required("Project ID parameter is required", st)
    ELSE HttpCall("GitLab", {200}, e, st)
gitlab_create_issue(p, e, st) ==
    IF ~Truthy(Get(p, "projectId")) THEN Required("Project ID parameter is required", st)
    ELSE IF ~Truthy(Get(p, "title")) THEN Required("Title parameter is required", st)
    ELSE HttpCall("GitLab", {201, 200}, e, st)
gitlab_get_pipelines(p, e, st) ==
    IF ~Truthy(Get(p, "projectId")) THEN Required("Project ID parameter is required", st)
    ELSE HttpCall("GitLab", {200}, e, st)

\* ------------------------------------------------------------- gmaps_tool
gmaps_geocode(p, e, st) ==
    IF ~Truthy(Get(p, "address")) THEN Required("Address parameter is required", st)
    ELSE HttpCall("Google Maps", {200}, e, st)
\* (mutant) reverse_geocode testing `is None` instead of truthiness
gmaps_reverse_geocode_NoneCheck(p, e, st) ==
    IF Get(p, "lat") = JNull \/ Get(p, "lng") = JNull
    THEN Required("Latitude and longitude parameters are required", st)
    ELSE HttpCall("Google Maps", {200}, e, st)
gmaps_reverse_geocode(p, e, st) ==
    IF ~Truthy(Get(p, "lat")) \/ ~Truthy(Get(p, "lng"))
    THEN Required("Latitude and longitude parameters are required", st)
    ELSE HttpCall("Google Maps", {200}, e, st)
gmaps_get_directions(p, e, st) ==
    IF ~Truthy(Get(p, "origin")) \/ ~Truthy(Get(p, "destination"))
    THEN Required("Origin and destination parameters are required", st)
    ELSE HttpCall("Google Maps", {200}, e, st)
gmaps_search_places(p, e, st) ==
    IF ~Truthy(Get(p, "query"))
       /\ ~(Truthy(Get(p, "location")) /\ Truthy(Get(p, "type")))
    THEN Required("Either query or location with type parameters are required", st)
    ELSE HttpCall("Google Maps", {200}, e, st)
gmaps_get_place_details(p, e, st) ==
    IF ~Truthy(Get(p, "placeId")) THEN Required("Place ID parameter is required", st)
    ELSE HttpCall("Google Maps", {200}, e, st)

\* ------------------------------------------------------------ memory_tool
\* The backend state: st.store is the table memory_items (key -> row),
\* st.engine says whether the module global `engine` is set, st.scripts
\* whether the node scripts of the puppeteer tool exist on disk.
UuidNames == <<"u1", "u2", "u3", "u4">>
Uuids == {UuidNames[i] : i \in 1..MaxUuids}

\* The characters of the strings that occur as keys, values and filters.
Chars(s) ==
    CASE s = "u1" -> <<"u", "1">>
      [] s = "u2" -> <<"u", "2">>
      [] s = "u3" -> <<"u", "3">>
      [] s = "u4" -> <<"u", "4">>
      [] s = JEmpty -> << >>
      [] OTHER -> <<s>>
Lower(c) == CASE c = "X" -> "x" [] c = "U" -> "u" [] OTHER -> c

\* SQL LIKE on character sequences: % matches any run, _ any one character,
\* letters compare case-insensitively (SQLite).
RECURSIVE LikeMatch(_, _)
LikeMatch(pat, s) ==
    IF pat = << >> THEN s = << >>
    ELSE IF Head(pat) = "%"
    THEN LikeMatch(Tail(pat), s) \/ (s # << >> /\ LikeMatch(pat, Tail(s)))
    ELSE /\ s # << >>
         /\ (Head(pat) = "_" \/ Lower(Head(pat)) = Lower(Head(s)))
         /\ LikeMatch(Tail(pat), Tail(s))
\* column.like(f'%{f}%'); a NULL column matches nothing.
Like(col, f) == col # JNull /\ LikeMatch(<<"%">> \o Chars(f) \o <<"%">>, Chars(col))

\* What SQLite keeps of a value bound to the Text column `value`.
TextCol(v) ==
    CASE v = JZero  -> "'0'"
      [] v = JFalse -> "'0'"
      [] v = JTrue  -> "'1'"
      [] OTHER      -> v
\* Values the driver cannot bind to a Text / String column.
Unbindable == {JList, JDict0, "[]"}

\* datetime.isoformat()
isoformat(t) == <<"iso", t>>

\* MemoryItem.to_dict
to_dict(key, row) ==
    [id |-> row.id, key |-> key, value |-> row.value, metadata |-> row.metadata,
     created_at |-> isoformat(row.created_at), updated_at |-> isoformat(row.updated_at)]

\* the id SQLite gives a new row: one more than the largest id in the table
NextId(store) ==
    IF DOMAIN store = {} THEN 1
    ELSE 1 + (CHOOSE m \in {store[k].id : k \in DOMAIN store} :
                 \A k \in DOMAIN store : store[k].id <= m)

\* the keys of S in the order of their row ids
RECURSIVE ById(_, _)
ById(store, S) ==
    IF S = {} THEN << >>
    ELSE LET k == CHOOSE x \in S : \A y \in S : store[x].id <= store[y].id
         IN <<k>> \o ById(store, S \ {k})

\* `if engine is None: initialize_db(current_app)`, run from its first line
\* to its last: engine and Session are set together, st.engine says so.
initialize_db(st) == [st EXCEPT !.engine = TRUE]
InitFx(st) == IF st.engine THEN << >> ELSE <<"initialize_db">>

\* What the database does with the statements of one session.
DbOutcomes == {"ok", "query_error", "commit_error"}

\* (mutant) get_memory stamping the item it reads
get_memory_Touch(p, e, st) ==
    LET key == Get(p, "key")
        s1  == initialize_db(st)
        fx  == InitFx(st) \o <<"session_open", "query">>
    IN IF ~Truthy(key) THEN Required("Key parameter is required", st)
       ELSE IF e.db = "query_error" \/ key \in Unbindable
       THEN Raise("OperationalError", <<"query failed">>, fx, s1)
       ELSE IF key \notin DOMAIN st.store
       THEN Raise("ValueError", <<"Memory item with key '", key, "' not found">>,
                  fx \o <<"session_close">>, s1)
       ELSE Return(to_dict(key, [st.store[key] EXCEPT !.updated_at = e.now]),
                   fx \o <<"commit", "session_close">>,
                   [s1 EXCEPT !.store[key].updated_at = e.now])

get_memory(p, e, st) ==
    LET key == Get(p, "key")
        s1  == initialize_db(st)
        fx  == InitFx(st) \o <<"session_open", "query">>
    IN IF ~Truthy(key) THEN Required("Key parameter is required", st)
       ELSE IF e.db = "query_error" \/ key \in Unbindable
       THEN Raise("OperationalError", <<"query failed">>, fx, s1)
       ELSE IF key \notin DOMAIN st.store
       THEN Raise("ValueError", <<"Memory item with key '", key, "' not found">>,
                  fx \o <<"session_close">>, s1)
       ELSE Return(to_dict(key, st.store[key]), fx \o <<"session_close">>, s1)

\* (mutant) set_memory writing its row over the whole table
set_memory_Replace(p, e, st) ==
    LET key      == IF Truthy(Get(p, "key")) THEN Get(p, "key") ELSE e.uuid
        value    == Get(p, "value")
        metadata == GetD(p, "metadata", JDict0)
        s1       == initialize_db(st)
        fx       == InitFx(st) \o <<"session_open", "query">>
        row      == [id |-> 1, value |-> TextCol(value), metadata |-> metadata,
                     created_at |-> e.now, updated_at |-> e.now]
    IN IF e.db = "query_error" \/ key \in Unbindable
       THEN Raise("OperationalError", <<"query failed">>, fx, s1)
       ELSE IF e.db = "commit_error" \/ value \in Unbindable
       THEN Raise("OperationalError", <<"commit failed">>, fx \o <<"commit">>, s1)
       ELSE Return(to_dict(key, row), fx \o <<"commit", "session_close">>,
                   [s1 EXCEPT !.store = [k \in {key} |-> row]])

\* (mutant) set_memory without the uuid fallback: the key is used as given
set_memory_NoUuid(p, e, st) ==
    LET key      == Get(p, "key")
        value    == Get(p, "value")
        metadata == GetD(p, "metadata", JDict0)
        s1       == initialize_db(st)
        fx       == InitFx(st) \o <<"session_open", "query">>
        row      == IF key \in DOMAIN st.store
                    THEN [st.store[key] EXCEPT !.value = TextCol(value),
                                               !.metadata = metadata,
                                               !.updated_at = e.now]
                    ELSE [id |-> NextId(st.store), value |-> TextCol(value),
                          metadata |-> metadata,
                          created_at |-> e.now, updated_at |-> e.now]
        store2   == [k \in DOMAIN st.store \cup {key} |->
                        IF k = key THEN row ELSE st.store[k]]
    IN IF e.db = "query_error" \/ key \in Unbindable
       THEN Raise("OperationalError", <<"query failed">>, fx, s1)
       ELSE IF e.db = "commit_error" \/ value \in Unbindable
       THEN Raise("OperationalError", <<"commit failed">>, fx \o <<"commit">>, s1)
       ELSE Return(to_dict(key, row), fx \o <<"commit", "session_close">>,
                   [s1 EXCEPT !.store = store2])

set_memory(p, e, st) ==
    LET key      == IF Truthy(Get(p, "key")) THEN Get(p, "key") ELSE e.uuid
        value    == Get(p, "value")
        metadata == GetD(p, "metadata", JDict0)
        s1       == initialize_db(st)
        fx       == InitFx(st) \o <<"session_open", "query">>
        row      == IF key \in DOMAIN st.store
                    THEN [st.store[key] EXCEPT !.value = TextCol(value),
                                               !.metadata = metadata,
                                               !.updated_at = e.now]
                    ELSE [id |-> NextId(st.store), value |-> TextCol(value),
                          metadata |-> metadata,
                          created_at |-> e.now, updated_at |-> e.now]
        store2   == [k \in DOMAIN st.store \cup {key} |->
                        IF k = key THEN row ELSE st.store[k]]
    IN IF e.db = "query_error" \/ key \in Unbindable
       THEN Raise("OperationalError", <<"query failed">>, fx, s1)
       ELSE IF e.db = "commit_error" \/ value \in Unbindable
       THEN Raise("OperationalError", <<"commit failed">>, fx \o <<"commit">>, s1)
       ELSE Return(to_dict(key, row), fx \o <<"commit", "session_close">>,
                   [s1 EXCEPT !.store = store2])

\* (mutant) delete_memory without session.delete(item)
delete_memory_NoDelete(p, e, st) ==
    LET key == Get(p, "key")
        s1  == initialize_db(st)
        fx  == InitFx(st) \o <<"session_open", "query">>
    IN IF ~Truthy(key) THEN Required("Key parameter is required", st)
       ELSE IF e.db = "query_error" \/ key \in Unbindable
       THEN Raise("OperationalError", <<"query failed">>, fx, s1)
       ELSE IF key \notin DOMAIN st.store
       THEN Raise("ValueError", <<"Memory item with key '", key, "' not found">>,
                  fx \o <<"session_close">>, s1)
       ELSE Return([success |-> TRUE,
                    message |-> <<"Memory item with key ", key, " deleted successfully">>],
                   fx \o <<"commit", "session_close">>, s1)

delete_memory(p, e, st) ==
    LET key == Get(p, "key")
        s1  == initialize_db(st)
        fx  == InitFx(st) \o <<"session_open", "query">>
    IN IF ~Truthy(key) THEN Required("Key parameter is required", st)
       ELSE IF e.db = "query_error" \/ key \in Unbindable
       THEN Raise("OperationalError", <<"query failed">>, fx, s1)
       ELSE IF key \notin DOMAIN st.store
       THEN Raise("ValueError", <<"Memory item with key '", key, "' not found">>,
                  fx \o <<"session_close">>, s1)
       ELSE IF e.db = "commit_error"
       THEN Raise("OperationalError", <<"commit failed">>, fx \o <<"commit">>, s1)
       ELSE Return([success |-> TRUE,
                    message |-> <<"Memory item with key ", key, " deleted successfully">>],
                   fx \o <<"commit", "session_close">>,
                   [s1 EXCEPT !.store = [k \in DOMAIN st.store \ {key} |-> st.store[k]]])

\* int(v): the integer, or the exception class int() raises
IntOf(v) ==
    CASE v = JZero  -> [ok |-> TRUE, n |-> 0, etype |-> ""]
      [] v = JFalse -> [ok |-> TRUE, n |-> 0, etype |-> ""]
      [] v = JTrue  -> [ok |-> TRUE, n |-> 1, etype |-> ""]
      [] v = "1"    -> [ok |-> TRUE, n |-> 1, etype |-> ""]
      [] v = "2"    -> [ok |-> TRUE, n |-> 2, etype |-> ""]
      [] v = "-1"   -> [ok |-> TRUE, n |-> -1, etype |-> ""]
      [] v = "100"  -> [ok |-> TRUE, n |-> 100, etype |-> ""]
      [] v \in {JNull, JList, JDict0, "[]"} -> [ok |-> FALSE, n |-> 0, etype |-> "TypeError"]
      [] OTHER      -> [ok |-> FALSE, n |-> 0, etype |-> "ValueError"]

\* rows[offset : offset + limit] of a query; a negative LIMIT means no limit
\* and a negative OFFSET means none (SQLite).
Page(rows, limit, offset) ==
    LET off == IF offset < 0 THEN 0 ELSE offset
        lim == IF limit < 0 THEN Len(rows) ELSE limit
        hi  == IF off + lim < Len(rows) THEN off + lim ELSE Len(rows)
    IN IF off >= Len(rows) THEN << >> ELSE SubSeq(rows, off + 1, hi)

list_memory(p, e, st) ==
    LET filter_key == Get(p, "filterKey")
        limit  == IntOf(GetD(p, "limit", "100"))
        offset == IntOf(GetD(p, "offset", JZero))
        s1     == initialize_db(st)
        fx     == InitFx(st) \o <<"session_open", "query">>
        match  == {k \in DOMAIN st.store : Truthy(filter_key) => Like(k, filter_key)}
        keys   == Page(ById(st.store, match), limit.n, offset.n)
    IN IF ~limit.ok THEN Raise(limit.etype, <<"int()">>, << >>, st)
       ELSE IF ~offset.ok THEN Raise(offset.etype, <<"int()">>, << >>, st)
       ELSE IF e.db = "query_error"
       THEN Raise("OperationalError", <<"query failed">>, fx, s1)
       ELSE Return([items |-> [i \in DOMAIN keys |-> to_dict(keys[i], st.store[keys[i]])],
                    total |-> Cardinality(match), limit |-> limit.n, offset |-> offset.n],
                   fx \o <<"session_close">>, s1)

search_memory(p, e, st) ==
    LET q     == Get(p, "q")
        s1    == initialize_db(st)
        fx    == InitFx(st) \o <<"session_open", "query">>
        match == {k \in DOMAIN st.store : Like(st.store[k].value, q)}
        keys  == ById(st.store, match)
    IN IF ~Truthy(q) THEN Required("Query parameter is required", st)
       ELSE IF e.db = "query_error"
       THEN Raise("OperationalError", <<"query failed">>, fx, s1)
       ELSE Return([items |-> [i \in DOMAIN keys |-> to_dict(keys[i], st.store[keys[i]])],
                    count |-> Len(keys), query |-> q],
                   fx \o <<"session_close">>, s1)

\* --------------------------------------------------------- puppeteer_tool
\* What the file system does with os.makedirs / open(..., 'w').
FsOutcomes == {"ok", "denied"}
\* What running `node <script>` does: it exits 0 with JSON on stdout and the
\* output file written ("ok"); it exits non-zero with a JSON error on stderr
\* ("fail_json") or with other text on stderr ("fail_raw"); node cannot be
\* started ("no_node"); it exits 0 with stdout that is not JSON
\* ("bad_stdout"); it exits 0 but has removed the output file ("no_file").
ProcOutcomes == {"ok", "fail_json", "fail_raw", "no_node", "bad_stdout", "no_file"}

ensure_script_dir(e, st) ==
    IF e.fs = "denied"
    THEN Raise("PermissionError", <<"Permission denied">>, <<"makedirs">>, st)
    ELSE Return([none |-> TRUE],
                <<"makedirs">> \o (IF st.scripts THEN << >> ELSE <<"write_scripts">>),
                [st EXCEPT !.scripts = TRUE])

\* The keys a handler copies into script_args when the caller gave them.
Optional(p, names) == {n \in names : Has(p, n)}

\* What `node SCRIPT_DIR/<script>.js` does for this call: node that cannot be
\* started stays so; a script that is not on disk makes node exit non-zero
\* with its own text on stderr; else the subprocess does what e.proc says.
Node(e, st) ==
    IF e.proc = "no_node" THEN "no_node"
    ELSE IF ~st.scripts THEN "fail_raw"
    ELSE e.proc

\* The temporary files a sequence of effects leaves on disk: created by
\* NamedTemporaryFile(delete=False), removed by os.unlink, or gone because
\* the subprocess removed it.
RECURSIVE TmpLeft(_)
TmpLeft(fx) ==
    IF fx = << >> THEN 0
    ELSE LET n == TmpLeft(SubSeq(fx, 1, Len(fx) - 1))
             x == fx[Len(fx)]
         IN CASE x = "tmpfile_create" -> n + 1
              [] x \in {"tmpfile_unlink", "tmpfile_gone"} -> n - 1
              [] OTHER -> n

\* (mutant) the cleanup left out of the CalledProcessError clause
RunWithFile_NoCleanupOnError(okValue, e, st) ==
    LET fx == <<"tmpfile_create", "subprocess">>
    IN CASE Node(e, st) = "ok" ->
              Return(okValue, fx \o <<"tmpfile_read", "tmpfile_unlink">>, st)
         [] Node(e, st) = "fail_json" ->
              Return([success |-> FALSE, error |-> "<stderr.error>"], fx, st)
         [] Node(e, st) = "fail_raw" ->
              Return([success |-> FALSE, error |-> "<stderr>"], fx, st)
         [] Node(e, st) = "no_file" ->
              Return([success |-> FALSE, error |-> "<str(e)>"],
                     fx \o <<"tmpfile_gone">>, st)
         [] OTHER ->
              Return([success |-> FALSE, error |-> "<str(e)>"],
                     fx \o <<"tmpfile_unlink">>, st)

\* subprocess.run(..., check=True) and what follows it in take_screenshot and
\* generate_pdf: okValue is the dict returned on success.  In the except
\* clauses the file is unlinked if os.path.exists says it is still there.
RunWithFile(okValue, e, st) ==
    LET fx == <<"tmpfile_create", "subprocess">>
    IN CASE Node(e, st) = "ok" ->
              Return(okValue, fx \o <<"tmpfile_read", "tmpfile_unlink">>, st)
         [] Node(e, st) = "fail_json" ->
              Return([success |-> FALSE, error |-> "<stderr.error>"],
                     fx \o <<"tmpfile_unlink">>, st)
         [] Node(e, st) = "fail_raw" ->
              Return([success |-> FALSE, error |-> "<stderr>"],
                     fx \o <<"tmpfile_unlink">>, st)
         [] Node(e, st) = "no_file" ->
              Return([success |-> FALSE, error |-> "<str(e)>"],
                     fx \o <<"tmpfile_gone">>, st)
         [] OTHER ->
              Return([success |-> FALSE, error |-> "<str(e)>"],
                     fx \o <<"tmpfile_unlink">>, st)

take_screenshot(p, e, st) ==
    LET url        == Get(p, "url")
        full_page  == GetD(p, "fullPage", JFalse)
        image_type == GetD(p, "type", "png")
        extra      == Optional(p, {"waitForSelector", "waitTime", "viewport",
                                   "userAgent", "quality"})
    IN IF ~Truthy(url) THEN Required("URL parameter is required", st)
       ELSE RunWithFile([success |-> TRUE, imageType |-> image_type,
                         base64Image |-> "<base64>"], e, st)

generate_pdf(p, e, st) ==
    LET url              == Get(p, "url")
        print_background == GetD(p, "printBackground", JTrue)
        extra            == Optional(p, {"format", "margin", "waitForSelector",
                                         "waitTime", "viewport", "userAgent"})
    IN IF ~Truthy(url) THEN Required("URL parameter is required", st)
       ELSE RunWithFile([success |-> TRUE, base64Pdf |-> "<base64>"], e, st)

extract_content(p, e, st) ==
    LET url          == Get(p, "url")
        selector     == Get(p, "selector")
        extract_html == GetD(p, "extractHtml", JFalse)
    IN IF ~Truthy(url) THEN Required("URL parameter is required", st)
       ELSE CASE Node(e, st) \in {"ok", "no_file"} ->
                   Return([success |-> TRUE, content |-> "<content>"], <<"subprocess">>, st)
              [] Node(e, st) = "fail_json" ->
                   Return([success |-> FALSE, error |-> "<stderr.error>"],
                          <<"subprocess">>, st)
              [] Node(e, st) = "fail_raw" ->
                   Return([success |-> FALSE, error |-> "<stderr>"], <<"subprocess">>, st)
              [] Node(e, st) = "no_node" ->
                   Return([success |-> FALSE, error |-> "<str(e)>"], <<"subprocess">>, st)
              [] OTHER ->
                   Return([success |-> FALSE, error |-> "<str(e)>"], <<"subprocess">>, st)

\* ------------------------------------------- what the handlers send out
\* The arguments of the backend call of the handlers that read a parameter
\* with a fallback: the query string of get_issues, the params of
\* get_directions, the script_args of take_screenshot and generate_pdf
\* (the five optional keys are copied only when the caller gave them).
get_issues_params(p) == [state |-> GetD(p, "state", "open")]
get_directions_params(p) ==
    [origin |-> Get(p, "origin"), destination |-> Get(p, "destination"),
     mode |-> GetD(p, "mode", "driving")]
\* (mutant) take_screenshot falling back to fullPage = True
screenshot_script_args_FullPage(p) ==
    [url |-> Get(p, "url"), fullPage |-> GetD(p, "fullPage", JTrue),
     type |-> GetD(p, "type", "png"),
     optional |-> [n \in Optional(p, {"waitForSelector", "waitTime", "viewport",
                                      "userAgent", "quality"}) |-> p[n]]]
screenshot_script_args(p) ==
    [url |-> Get(p, "url"), fullPage |-> GetD(p, "fullPage", JFalse),
     type |-> GetD(p, "type", "png"),
     optional |-> [n \in Optional(p, {"waitForSelector", "waitTime", "viewport",
                                      "userAgent", "quality"}) |-> p[n]]]
pdf_script_args(p) ==
    [url |-> Get(p, "url"), printBackground |-> GetD(p, "printBackground", JTrue),
     optional |-> [n \in Optional(p, {"format", "margin", "waitForSelector",
                                      "waitTime", "viewport", "userAgent"}) |-> p[n]]]

\* ----------------------------------------------------------- handle_action
\* parameters as the gateway passes them on: pr.kind says what JSON value
\* `parameters` is ("dict", "null", "list"), pr.d holds the dict's items.
WithFx(prefix, r) == [r EXCEPT !.fx = prefix \o @]

\* action_handlers[action](parameters) of each tool
Handler(tool, action, p, e, st) ==
    CASE tool = "github" /\ action = "listRepos"      -> github_list_repos(p, e, st)
      [] tool = "github" /\ action = "getRepo"        -> github_get_repo(p, e, st)
      [] tool = "github" /\ action = "searchRepos"    -> github_search_repos(p, e, st)
      [] tool = "github" /\ action = "getIssues"      -> github_get_issues(p, e, st)
      [] tool = "github" /\ action = "createIssue"    -> github_create_issue(p, e, st)
      [] tool = "gitlab" /\ action = "listProjects"   -> gitlab_list_projects(p, e, st)
      [] tool = "gitlab" /\ action = "getProject"     -> gitlab_get_project(p, e, st)
      [] tool = "gitlab" /\ action = "searchProjects" -> gitlab_search_projects(p, e, st)
      [] tool = "gitlab" /\ action = "getIssues"      -> gitlab_get_issues(p, e, st)
      [] tool = "gitlab" /\ action = "createIssue"    -> gitlab_create_issue(p, e, st)
      [] tool = "gitlab" /\ action = "getPipelines"   -> gitlab_get_pipelines(p, e, st)
      [] tool = "gmaps" /\ action = "geocode"         -> gmaps_geocode(p, e, st)
      [] tool = "gmaps" /\ action = "reverseGeocode"  -> gmaps_reverse_geocode(p, e, st)
      [] tool = "gmaps" /\ action = "getDirections"   -> gmaps_get_directions(p, e, st)
      [] tool = "gmaps" /\ action = "searchPlaces"    -> gmaps_search_places(p, e, st)
      [] tool = "gmaps" /\ action = "getPlaceDetails" -> gmaps_get_place_details(p, e, st)
      [] tool = "memory" /\ action = "get"            -> get_memory(p, e, st)
      [] tool = "memory" /\ action = "set"            -> set_memory(p, e, st)
      [] tool = "memory" /\ action = "delete"         -> delete_memory(p, e, st)
      [] tool = "memory" /\ action = "list"           -> list_memory(p, e, st)
      [] tool = "memory" /\ action = "search"         -> search_memory(p, e, st)
      [] tool = "puppeteer" /\ action = "screenshot"  -> take_screenshot(p, e, st)
      [] tool = "puppeteer" /\ action = "pdf"         -> generate_pdf(p, e, st)
      [] tool = "puppeteer" /\ action = "extract"     -> extract_content(p, e, st)

\* list_projects is the one handler that never reads its parameters; every
\* other handler starts with parameters.get(...), which a value that is not
\* a dict does not have.
ReadsParameters(tool, action) == ~(tool = "gitlab" /\ action = "listProjects")

\* (mutant) handle_action without its membership test: the dict lookup raises
Lookup_KeyError(tool, action, pr, e, st) ==
    IF action = JList
    THEN Raise("TypeError", <<"unhashable type: 'list'">>, << >>, st)
    ELSE IF action \notin action_handlers(tool)
    THEN Raise("KeyError", <<action>>, << >>, st)
    ELSE IF pr.kind # "dict" /\ ReadsParameters(tool, action)
    THEN Raise("AttributeError", <<"object has no attribute 'get'">>,
               <<"handler">>, st)
    ELSE WithFx(<<"handler">>, Handler(tool, action, pr.d, e, st))

\* (mutant) handle_action calling the handler again when it has raised
Lookup_Retry(tool, action, pr, e, st) ==
    IF action = JList
    THEN Raise("TypeError", <<"unhashable type: 'list'">>, << >>, st)
    ELSE IF action \notin action_handlers(tool)
    THEN Raise("ValueError", <<"Unknown action: ", action>>, << >>, st)
    ELSE IF pr.kind # "dict" /\ ReadsParameters(tool, action)
    THEN Raise("AttributeError", <<"object has no attribute 'get'">>,
               <<"handler">>, st)
    ELSE LET r1 == Handler(tool, action, pr.d, e, st)
         IN IF r1.how = "return" THEN WithFx(<<"handler">>, r1)
            ELSE WithFx(<<"handler">> \o r1.fx \o <<"handler">>,
                        Handler(tool, action, pr.d, e, r1.st))

\* The body of handle_action after the tool's own preamble.
Lookup(tool, action, pr, e, st) ==
    IF action = JList
    THEN Raise("TypeError", <<"unhashable type: 'list'">>, << >>, st)
    ELSE IF action \notin action_handlers(tool)
    THEN Raise("ValueError", <<"Unknown action: ", action>>, << >>, st)
    ELSE IF pr.kind # "dict" /\ ReadsParameters(tool, action)
    THEN Raise("AttributeError", <<"object has no attribute 'get'">>,
               <<"handler">>, st)
    ELSE WithFx(<<"handler">>, Handler(tool, action, pr.d, e, st))

handle_action(tool, action, pr, e, st) ==
    IF tool = "puppeteer"
    THEN LET r0 == ensure_script_dir(e, st)
         IN IF r0.how = "raise" THEN r0
            ELSE WithFx(r0.fx, Lookup(tool, action, pr, e, r0.st))
    ELSE Lookup(tool, action, pr, e, st)

\* -------------------------------------------------------------- mcp_gateway
\* A request body: body.json is "object" for a JSON object, else the literal
\* the body is (JNull also stands for a request without a body).  For an
\* object, tool / action are the values under those keys (Absent when the key
\* is missing), pkind says what `parameters` is ("absent", "dict", "null",
\* "list"), params holds the items of a dict, and other says whether the
\* object has keys besides these three.
IsEmptyObject(body) ==
    /\ body.json = "object"
    /\ body.tool = Absent /\ body.action = Absent /\ body.pkind = "absent"
    /\ ~body.other

\* `not data`
NotData(body) == IF body.json = "object" THEN IsEmptyObject(body) ELSE ~Truthy(body.json)

\* (mutant) every early return answered with status 400
Flat_Always400(message, status) ==
    [kind |-> "response", http |-> 400, etype |-> "",
     body |-> [error |-> [t |-> "str", s |-> message]]]
\* jsonify({"error": message}), status
Flat(message, status) ==
    [kind |-> "response", http |-> status, etype |-> "",
     body |-> [error |-> [t |-> "str", s |-> message]]]
\* the mcp_response dict, returned with the default status 200
Success(tool, action, result) ==
    [kind |-> "response", http |-> 200, etype |-> "",
     body |-> [tool |-> tool, action |-> action, status |-> "success", result |-> result]]
\* (mutant) an error envelope that still carries a result
Failure_WithResult(tool, action, etype, msg) ==
    [kind |-> "response", http |-> 500, etype |-> "",
     body |-> [tool |-> tool, action |-> action, status |-> "error", result |-> JNull,
               error |-> [t |-> "obj", type |-> etype, message |-> msg]]]
\* the mcp_error dict, returned with status 500
Failure(tool, action, etype, msg) ==
    [kind |-> "response", http |-> 500, etype |-> "",
     body |-> [tool |-> tool, action |-> action, status |-> "error",
               error |-> [t |-> "obj", type |-> etype, message |-> msg]]]
\* an exception that leaves mcp_gateway
Unhandled(etype) == [kind |-> "exception", http |-> 0, etype |-> etype, body |-> << >>]

Done(out, fx, st) == [out |-> out, fx |-> fx, st |-> st]

\* (mutant) the gateway testing `action` before `tool_name`
mcp_gateway_ActionFirst(body, e, st) ==
    LET tool_name  == IF body.tool = Absent THEN JNull ELSE body.tool
        action     == IF body.action = Absent THEN JNull ELSE body.action
        parameters == [kind |-> IF body.pkind = "absent" THEN "dict" ELSE body.pkind,
                       d |-> body.params]
        r          == handle_action(tool_name, action, parameters, e, st)
    IN IF NotData(body) THEN Done(Flat(<<"Request body is required">>, 400), << >>, st)
       ELSE IF body.json # "object"
       THEN Done(Unhandled("AttributeError"), << >>, st)
       ELSE IF ~Truthy(action)
       THEN Done(Flat(<<"Action is required">>, 400), << >>, st)
       ELSE IF ~Truthy(tool_name)
       THEN Done(Flat(<<"Tool name is required">>, 400), << >>, st)
       ELSE IF tool_name \notin GatewayTools
       THEN Done(Flat(<<"Unknown tool: ", tool_name>>, 404), <<"lookup">>, st)
       ELSE IF r.how = "return"
       THEN Done(Success(tool_name, action, r.value), <<"lookup">> \o r.fx, r.st)
       ELSE Done(Failure(tool_name, action, r.etype, r.msg), <<"lookup">> \o r.fx, r.st)

\* (mutant) the gateway without its test of `action`
mcp_gateway_NoActionCheck(body, e, st) ==
    LET tool_name  == IF body.tool = Absent THEN JNull ELSE body.tool
        action     == IF body.action = Absent THEN JNull ELSE body.action
        parameters == [kind |-> IF body.pkind = "absent" THEN "dict" ELSE body.pkind,
                       d |-> body.params]
        r          == handle_action(tool_name, action, parameters, e, st)
    IN IF NotData(body) THEN Done(Flat(<<"Request body is required">>, 400), << >>, st)
       ELSE IF body.json # "object"
       THEN Done(Unhandled("AttributeError"), << >>, st)
       ELSE IF ~Truthy(tool_name)
       THEN Done(Flat(<<"Tool name is required">>, 400), << >>, st)
       ELSE IF tool_name \notin GatewayTools
       THEN Done(Flat(<<"Unknown tool: ", tool_name>>, 404), <<"lookup">>, st)
       ELSE IF r.how = "return"
       THEN Done(Success(tool_name, action, r.value), <<"lookup">> \o r.fx, r.st)
       ELSE Done(Failure(tool_name, action, r.etype, r.msg), <<"lookup">> \o r.fx, r.st)

mcp_gateway(body, e, st) ==
    LET tool_name  == IF body.tool = Absent THEN JNull ELSE body.tool
        action     == IF body.action = Absent THEN JNull ELSE body.action
        parameters == [kind |-> IF body.pkind = "absent" THEN "dict" ELSE body.pkind,
                       d |-> body.params]
        r          == handle_action(tool_name, action, parameters, e, st)
    IN IF NotData(body) THEN Done(Flat(<<"Request body is required">>, 400), << >>, st)
       ELSE IF body.json # "object"
       THEN Done(Unhandled("AttributeError"), << >>, st)
       ELSE IF ~Truthy(tool_name)
       THEN Done(Flat(<<"Tool name is required">>, 400), << >>, st)
       ELSE IF ~Truthy(action)
       THEN Done(Flat(<<"Action is required">>, 400), << >>, st)
       ELSE IF tool_name \notin GatewayTools
       THEN Done(Flat(<<"Unknown tool: ", tool_name>>, 404), <<"lookup">>, st)
       ELSE IF r.how = "return"
       THEN Done(Success(tool_name, action, r.value), <<"lookup">> \o r.fx, r.st)
       ELSE Done(Failure(tool_name, action, r.etype, r.msg), <<"lookup">> \o r.fx, r.st)

\* ------------------------------------------------------------------ inputs
\* The values a caller gives a parameter the handler insists on: the key left
\* out, each falsy value, and a proper string.
ReqVals == {Absent, JNull, JEmpty, JZero, JFalse, "x"}
OptVals == {Absent, "x"}
\* the falsy values a caller can give explicitly
Exotic == {JNull, JEmpty, JZero, JFalse}

\* For every action the parameters the requests of the model vary, each
\* with the values it takes; "extra" is a key no action declares or reads.
In(n, vs) == [name |-> n, vals |-> vs]
ParamSpace(tool, action) ==
    CASE tool = "github" /\ action = "listRepos"   -> {In("username", ReqVals), In("extra", OptVals)}
      [] tool = "github" /\ action = "getRepo"     -> {In("owner", ReqVals), In("repo", ReqVals)}
      [] tool = "github" /\ action = "searchRepos" -> {In("query", ReqVals)}
      [] tool = "github" /\ action = "getIssues"   ->
            {In("owner", ReqVals), In("repo", ReqVals), In("state", {Absent, "open", "closed"})}
      [] tool = "github" /\ action = "createIssue" ->
            {In("owner", ReqVals), In("repo", ReqVals), In("title", ReqVals),
             In("body", OptVals)}
      [] tool = "gitlab" /\ action = "listProjects"   -> {In("extra", OptVals)}
      [] tool = "gitlab" /\ action = "getProject"     -> {In("projectId", ReqVals)}
      [] tool = "gitlab" /\ action = "searchProjects" -> {In("query", ReqVals)}
      [] tool = "gitlab" /\ action = "getIssues"      ->
            {In("projectId", ReqVals), In("state", {Absent, "opened"})}
      [] tool = "gitlab" /\ action = "createIssue"    ->
            {In("projectId", ReqVals), In("title", ReqVals), In("description", OptVals)}
      [] tool = "gitlab" /\ action = "getPipelines"   -> {In("projectId", ReqVals)}
      [] tool = "gmaps" /\ action = "geocode"         -> {In("address", ReqVals)}
      [] tool = "gmaps" /\ action = "reverseGeocode"  -> {In("lat", ReqVals), In("lng", ReqVals)}
      [] tool = "gmaps" /\ action = "getDirections"   ->
            {In("origin", ReqVals), In("destination", ReqVals),
             In("mode", {Absent, "driving", "walking"})}
      [] tool = "gmaps" /\ action = "searchPlaces"    ->
            {In("query", OptVals), In("location", OptVals), In("type", OptVals)}
      [] tool = "gmaps" /\ action = "getPlaceDetails" -> {In("placeId", ReqVals)}
      [] tool = "memory" /\ action = "get"            -> {In("key", ReqVals), In("extra", OptVals)}
      [] tool = "memory" /\ action = "set"            ->
            {In("key", {Absent, JEmpty, "x"}), In("value", {Absent, "x"}),
             In("metadata", {Absent, JDict0})}
      [] tool = "memory" /\ action = "delete"         -> {In("key", ReqVals)}
      [] tool = "memory" /\ action = "list"           ->
            {In("filterKey", {Absent, "x"}), In("limit", {Absent, "1", JNull}),
             In("offset", {Absent, "1"})}
      [] tool = "memory" /\ action = "search"         -> {In("q", ReqVals)}
      [] tool = "puppeteer" /\ action = "screenshot"  ->
            {In("url", ReqVals), In("fullPage", {Absent, JFalse}),
             In("type", {Absent, "jpeg"}), In("quality", OptVals)}
      [] tool = "puppeteer" /\ action = "pdf"         ->
            {In("url", ReqVals), In("printBackground", {Absent, JTrue})}
      [] tool = "puppeteer" /\ action = "extract"     ->
            {In("url", ReqVals), In("selector", OptVals)}
      [] OTHER -> {}

ParamKeys(tool, action) == {i.name : i \in ParamSpace(tool, action)}
\* the dicts over a set of In(name, vals)
RECURSIVE DictsOver(_)
DictsOver(S) ==
    IF S = {} THEN {[k \in {} |-> Absent]}
    ELSE LET i == CHOOSE x \in S : TRUE
         IN {[k \in DOMAIN d \cup {i.name} |-> IF k = i.name THEN v ELSE d[k]] :
                d \in DictsOver(S \ {i}), v \in i.vals}
\* the dicts a request can carry as `parameters`: at most one of the
\* parameters is given an explicit falsy value
ParamDicts(tool, action) ==
    {d \in DictsOver(ParamSpace(tool, action)) :
        Cardinality({k \in DOMAIN d : d[k] \in Exotic}) <= 1}
NoParams(tool, action) == [k \in ParamKeys(tool, action) |-> Absent]

ToolInputs == GatewayTools \cup {Absent, JNull, JEmpty, JZero, "nosuch"}
ActionInputs(tool) ==
    IF tool \in GatewayTools
    THEN action_handlers(tool) \cup ManifestActions(tool)
            \cup {Absent, JNull, JEmpty, "nosuch", JList}
    ELSE {Absent, JEmpty, "nosuch", "get"}

\* The request bodies of the model.
ObjectBodies ==
    UNION { UNION { {[json |-> "object", tool |-> t, action |-> a, pkind |-> "dict",
                      params |-> d, other |-> FALSE] : d \in ParamDicts(t, a)}
                    \cup
                    {[json |-> "object", tool |-> t, action |-> a, pkind |-> k,
                      params |-> NoParams(t, a), other |-> o] :
                        k \in {"absent", "null", "list"}, o \in BOOLEAN}
                  : a \in ActionInputs(t) }
          : t \in ToolInputs }
OtherBodies ==
    {[json |-> j, tool |-> Absent, action |-> Absent, pkind |-> "absent",
      params |-> NoParams(Absent, Absent), other |-> FALSE] :
        j \in {JNull, "[]", JList, JEmpty, "x", JZero, "1", JFalse, JTrue}}
Bodies == ObjectBodies \cup OtherBodies

\* ------------------------------------------------------------- environment
\* What the world outside the process does during one request: e.http the
\* upstream's answer, e.proc the node subprocess, e.db the database, e.fs the
\* file system, e.uuid the value of uuid.uuid4(), e.now the clock.
EnvQuiet(t) == [http |-> HttpOk, proc |-> "ok", db |-> "ok", fs |-> "ok",
                uuid |-> Absent, now |-> t]
EnvsFor(tool, t, store) ==
    CASE tool \in {"github", "gitlab", "gmaps"} ->
            {[EnvQuiet(t) EXCEPT !.http = h] : h \in HttpOutcomes}
      [] tool = "memory" ->
            {[EnvQuiet(t) EXCEPT !.db = d, !.uuid = u] :
                d \in DbOutcomes, u \in (Uuids \ DOMAIN store) \cup {Absent}}
      [] tool = "puppeteer" ->
            {[EnvQuiet(t) EXCEPT !.fs = f, !.proc = q] : f \in FsOutcomes, q \in ProcOutcomes}
      [] OTHER -> {EnvQuiet(t)}

\* uuid.uuid4() is called exactly by set_memory with a falsy key.
NeedsUuid(body) ==
    /\ body.json = "object" /\ body.tool = "memory" /\ body.action = "set"
    /\ body.pkind \in {"dict", "absent"}
    /\ ~Truthy(Get(body.params, "key"))

\* An environment is listed once per request: what the request never
\* consults is left at its quiet value.
Canonical(body, e, fx) ==
    /\ ~Touches(fx, {"http"}) => e.http = HttpOk
    /\ ~Touches(fx, {"subprocess"}) => e.proc = "ok"
    /\ ~Touches(fx, {"query"}) => e.db = "ok"
    /\ ~Touches(fx, {"makedirs"}) => e.fs = "ok"
    /\ (e.uuid # Absent) <=> NeedsUuid(body)

\* ------------------------------------------------------------------- state
VARIABLES
    request,    \* the last request: its endpoint and body
    env,        \* what the environment did during it
    outcome,    \* what the endpoint function returned or raised
    effects,    \* the side effects performed while serving it, in order
    store,      \* the table memory_items: key -> row
    engine,     \* whether memory_tool.engine is set
    Session,    \* whether memory_tool.Session, the session factory, is set
    scripts,    \* whether the node scripts exist in SCRIPT_DIR
    served,     \* whether the app has served its first request
    now,        \* the clock
    workers,    \* the request threads that run handlers step by step
    table,      \* memory_items as the rows the threads read and write
    files,      \* the files of SCRIPT_DIR as the threads see them
    origin      \* the table and the files when the threads took their requests

\* the state of the step-by-step execution
conc == <<workers, table, files, origin>>
vars == <<request, env, outcome, effects, store, engine, Session, scripts, served, now,
          workers, table, files, origin>>

\* The request threads of the server, and a thread between two requests.
Workers == {1, 2}
IdleWorker == [pc |-> "idle"]
\* the scripts ensure_script_dir writes, in its order
ScriptNames == <<"screenshot.js", "pdf.js", "extract.js">>
NoFiles == [i \in DOMAIN ScriptNames |-> "absent"]

NoBody == [json |-> JNull, tool |-> Absent, action |-> Absent, pkind |-> "absent",
           params |-> NoParams(Absent, Absent), other |-> FALSE]
NoOutcome == [kind |-> "none", http |-> 0, etype |-> "", body |-> << >>]

Init ==
    /\ request = [endpoint |-> "none", body |-> NoBody]
    /\ env = EnvQuiet(0)
    /\ outcome = NoOutcome
    /\ effects = << >>
    /\ store = << >>
    /\ engine = FALSE
    /\ Session = FALSE
    /\ scripts = FALSE
    /\ served = FALSE
    /\ now = 0
    /\ workers = [w \in Workers |-> IdleWorker]
    /\ table = {}
    /\ files = NoFiles
    /\ origin = [table |-> {}, files |-> NoFiles, round |-> 0]

Backend == [store |-> store, engine |-> engine, scripts |-> scripts]

\* @memory_routes.before_app_first_request: initialize_db before the first
\* request the app serves.
before_first_request(st) == IF served THEN st ELSE initialize_db(st)
HookFx == IF served THEN << >> ELSE <<"before_first_request">>

Idle == request.endpoint = "none"

\* POST /mcp/gateway with the body `body` while the environment does e
Dispatch(body, e) ==
    LET r == mcp_gateway(body, e, before_first_request(Backend))
    IN /\ Canonical(body, e, r.fx)
       /\ request' = [endpoint |-> "gateway", body |-> body]
       /\ env' = e
       /\ outcome' = r.out
       /\ effects' = HookFx \o r.fx
       /\ store' = r.st.store
       /\ engine' = r.st.engine
       /\ Session' = r.st.engine
       /\ scripts' = r.st.scripts
       /\ served' = TRUE
       /\ UNCHANGED <<now, conc>>

Gateway ==
    /\ Idle
    /\ \E body \in Bodies :
       \E e \in EnvsFor(body.tool, now, store) : Dispatch(body, e)

\* (mutant) a manifest assembled from what the process has set up so far:
\* the puppeteer tool is listed once its scripts are written
Manifest_Dynamic ==
    /\ Idle
    /\ request' = [endpoint |-> "manifest", body |-> NoBody]
    /\ env' = EnvQuiet(now)
    /\ outcome' = [kind |-> "response", http |-> 200, etype |-> "",
                   body |-> [manifestVersion |-> "1.0",
                             tools |-> [t \in IF scripts THEN ManifestTools
                                               ELSE ManifestTools \ {"puppeteer"}
                                        |-> mcp_manifest[t]]]]
    /\ effects' = HookFx
    /\ engine' = before_first_request(Backend).engine
    /\ Session' = before_first_request(Backend).engine
    /\ served' = TRUE
    /\ UNCHANGED <<store, scripts, now, conc>>

\* GET /mcp/manifest
Manifest ==
    /\ Idle
    /\ request' = [endpoint |-> "manifest", body |-> NoBody]
    /\ env' = EnvQuiet(now)
    /\ outcome' = [kind |-> "response", http |-> 200, etype |-> "",
                   body |-> [manifestVersion |-> "1.0", tools |-> mcp_manifest]]
    /\ effects' = HookFx
    /\ engine' = before_first_request(Backend).engine
    /\ Session' = before_first_request(Backend).engine
    /\ served' = TRUE
    /\ UNCHANGED <<store, scripts, now, conc>>

\* GET /health
Health ==
    /\ Idle
    /\ request' = [endpoint |-> "health", body |-> NoBody]
    /\ env' = EnvQuiet(now)
    /\ outcome' = [kind |-> "response", http |-> 200, etype |-> "",
                   body |-> [status |-> "ok"]]
    /\ effects' = HookFx
    /\ engine' = before_first_request(Backend).engine
    /\ Session' = before_first_request(Backend).engine
    /\ served' = TRUE
    /\ UNCHANGED <<store, scripts, now, conc>>

\* The response (or the exception) reaches the caller and the request
\* context is torn down; the backend state stays.
Reply ==
    /\ ~Idle
    /\ request' = [endpoint |-> "none", body |-> NoBody]
    /\ env' = EnvQuiet(now)
    /\ outcome' = NoOutcome
    /\ effects' = << >>
    /\ UNCHANGED <<store, engine, Session, scripts, served, now, conc>>

\* time passes between requests
Tick ==
    /\ Idle
    /\ now < MaxClock
    /\ now' = now + 1
    /\ UNCHANGED <<request, env, outcome, effects, store, engine, Session, scripts, served, conc>>

\* The server with the clock standing still: every endpoint, every tool.
Next == Gateway \/ Manifest \/ Health \/ Reply

Spec == Init /\ [][Next]_vars

\* ------------------------------------------------- the memory tool in time
\* The gateway serving the memory tool alone while the clock advances: the
\* requests name the key "x", the empty key or no key, and give `value` a
\* string, a number or an array; a list filters by a letter in
\* either case or by the wildcard _, and asks for every item, for none, or
\* for the second one.
MemoryDict(keys, vals) ==
    {[k \in {"key", "value", "metadata", "filterKey", "limit", "offset", "q"} |->
        CASE k = "key" -> key [] k = "value" -> v [] OTHER -> Absent] :
        key \in keys, v \in vals}
MemoryParams(action) ==
    CASE action = "set"    -> MemoryDict({Absent, JEmpty, "x"}, {"x", JZero, JList})
      [] action = "get"    -> MemoryDict({Absent, "x"}, {Absent})
      [] action = "delete" -> MemoryDict({Absent, "x"}, {Absent})
      [] action = "list"   ->
            {[d EXCEPT !.filterKey = f, !.limit = pg[1], !.offset = pg[2]] :
                d \in MemoryDict({Absent}, {Absent}), f \in {Absent, "u", "U", "_"},
                pg \in {<<Absent, Absent>>, <<JZero, Absent>>, <<"1", "1">>}}
      [] action = "search" ->
            {[d EXCEPT !.q = q] : d \in MemoryDict({Absent}, {Absent}), q \in {"x", "0"}}
MemoryBodies ==
    UNION {{[json |-> "object", tool |-> "memory", action |-> a, pkind |-> "dict",
             params |-> d, other |-> FALSE] : d \in MemoryParams(a)} : a \in MemoryActions}

MemoryCall ==
    /\ Idle
    /\ \E body \in MemoryBodies :
       \E e \in EnvsFor("memory", now, store) : Dispatch(body, e)

NextMemory == MemoryCall \/ Reply \/ Tick

SpecMemory == Init /\ [][NextMemory]_vars

\* ---------------------------------------------------- concurrent requests
\* Two request threads run gateway dispatches at the same time.  A memory
\* handler is two steps, its query (session.query(...).first()) and its
\* flush and commit; the puppeteer tool is the steps of ensure_script_dir,
\* one per file operation, and the run of node; a tool that keeps no state
\* is one step.  The table is the set of its rows, so that what keeps keys
\* unique is the index of the column and not the shape of the model.
RowsWithKey(tbl, key) == {r \in tbl : r.key = key}
RowsWithId(tbl, id) == {r \in tbl : r.id = id}
NextRowId(tbl) ==
    IF tbl = {} THEN 1
    ELSE 1 + (CHOOSE m \in {r.id : r \in tbl} : \A r \in tbl : r.id <= m)
\* the table as the map key -> row of the handlers above
AsStore(tbl) ==
    [k \in {r.key : r \in tbl} |->
        LET r == CHOOSE x \in tbl : x.key = k
        IN [id |-> r.id, value |-> r.value, metadata |-> r.metadata,
            created_at |-> r.created_at, updated_at |-> r.updated_at]]

\* (mutant) the column `key` without unique=True
insert_NoUnique(tbl, row) == [ok |-> TRUE, table |-> tbl \cup {row}]
\* INSERT INTO memory_items: the unique index on `key` refuses a second row
\* with a key that is in the table
insert(tbl, row) ==
    IF RowsWithKey(tbl, row.key) # {}
    THEN [ok |-> FALSE, table |-> tbl]
    ELSE [ok |-> TRUE, table |-> tbl \cup {row}]

\* the envelope mcp_gateway makes of what handle_action returned or raised
Envelope(body, r) ==
    IF r.how = "return" THEN Success(body.tool, body.action, r.value)
    ELSE Failure(body.tool, body.action, r.etype, r.msg)

\* The requests the threads serve.
ConcBody(tool, action, d) ==
    [json |-> "object", tool |-> tool, action |-> action, pkind |-> "dict",
     params |-> d, other |-> FALSE]
ConcBodies ==
    {ConcBody("memory", "set", [key |-> k, value |-> v]) :
        k \in {"x", Absent, JEmpty}, v \in {"x", "y"}}
    \cup {ConcBody("memory", a, [key |-> "x"]) : a \in {"get", "delete"}}
    \cup {ConcBody("puppeteer", a, [url |-> "x"]) : a \in {"screenshot", "pdf"}}
    \cup {ConcBody("github", "listRepos", [username |-> "x"])}
\* the script a puppeteer action runs
ScriptOf(action) == CASE action = "screenshot" -> 1 [] action = "pdf" -> 2 [] OTHER -> 3
FirstPc(body) ==
    CASE body.tool = "memory" -> "query"
      [] body.tool = "puppeteer" -> "makedirs"
      [] OTHER -> "call"
Busy == {w \in Workers : workers[w].pc # "idle"}
\* the key a memory handler works on
KeyOf(w) ==
    IF Truthy(Get(workers[w].body.params, "key"))
    THEN Get(workers[w].body.params, "key") ELSE workers[w].e.uuid
Finished(w, r) ==
    [workers EXCEPT ![w].pc = "done", ![w].out = Envelope(workers[w].body, r)]
Frame == UNCHANGED <<request, env, outcome, effects, store, scripts, now>>

\* Requests arrive while no thread is busy: one thread or both take one.
\* The first request of the process runs before_first_request under
\* Flask's lock, so the engine is set before any handler starts.
Accept ==
    /\ Busy = {}
    /\ origin.round < MaxRounds
    /\ \E ws \in SUBSET Workers : \E bs \in [ws -> ConcBodies] :
       \E us \in [ws -> (Uuids \ {r.key : r \in table}) \cup {Absent}] :
         /\ ws # {}
         /\ \A w \in ws : (us[w] # Absent) <=> NeedsUuid(bs[w])
         /\ \A w1, w2 \in ws : (w1 # w2 /\ us[w1] # Absent) => us[w1] # us[w2]
         /\ workers' = [w \in Workers |->
                IF w \in ws
                THEN [pc |-> FirstPc(bs[w]), body |-> bs[w],
                      e |-> [EnvQuiet(now) EXCEPT !.uuid = us[w]],
                      item |-> 0, i |-> 1, out |-> NoOutcome]
                ELSE IdleWorker]
    /\ origin' = [table |-> table, files |-> files, round |-> origin.round + 1]
    /\ engine' = before_first_request(Backend).engine
    /\ Session' = before_first_request(Backend).engine
    /\ served' = TRUE
    /\ UNCHANGED <<table, files>>
    /\ Frame

\* session = Session(); item = session.query(MemoryItem).filter_by(key=key).first()
QueryItem(w) ==
    /\ workers[w].pc = "query"
    /\ LET key   == KeyOf(w)
           found == RowsWithKey(table, key)
           row   == CHOOSE r \in found : TRUE
           miss  == Raise("ValueError", <<"Memory item with key '", key, "' not found">>,
                          << >>, Backend)
       IN workers' =
            CASE workers[w].body.action = "get" ->
                    Finished(w, IF found = {} THEN miss
                                ELSE Return(to_dict(key, row), << >>, Backend))
              [] workers[w].body.action = "delete" /\ found = {} -> Finished(w, miss)
              [] OTHER -> [workers EXCEPT ![w].pc = "commit",
                                          ![w].item = IF found = {} THEN 0 ELSE row.id]
    /\ UNCHANGED <<table, files, origin, engine, Session, served>>
    /\ Frame

\* The rest of set_memory and delete_memory: the change, session.commit()
\* and the result.  The UPDATE of a row that is gone raises StaleDataError,
\* the INSERT of a key that is in the table IntegrityError; a DELETE that
\* matches no row only warns.
Commit(w) ==
    /\ workers[w].pc = "commit"
    /\ LET me    == workers[w]
           key   == KeyOf(w)
           value == TextCol(Get(me.body.params, "value"))
           meta  == GetD(me.body.params, "metadata", JDict0)
           old   == CHOOSE r \in RowsWithId(table, me.item) : TRUE
           upd   == [old EXCEPT !.value = value, !.metadata = meta,
                                !.updated_at = me.e.now]
           new   == [id |-> NextRowId(table), key |-> key, value |-> value,
                     metadata |-> meta, created_at |-> me.e.now,
                     updated_at |-> me.e.now]
           ins   == insert(table, new)
       IN CASE me.body.action = "delete" ->
                 /\ table' = table \ RowsWithId(table, me.item)
                 /\ workers' = Finished(w,
                        Return([success |-> TRUE,
                                message |-> <<"Memory item with key ", key,
                                              " deleted successfully">>], << >>, Backend))
            [] me.body.action = "set" /\ me.item # 0 ->
                 IF RowsWithId(table, me.item) = {}
                 THEN /\ table' = table
                      /\ workers' = Finished(w,
                             Raise("StaleDataError", <<"UPDATE matched 0 rows">>,
                                   << >>, Backend))
                 ELSE /\ table' = (table \ {old}) \cup {upd}
                      /\ workers' = Finished(w, Return(to_dict(key, upd), << >>, Backend))
            [] OTHER ->
                 /\ table' = ins.table
                 /\ workers' = Finished(w,
                        IF ins.ok THEN Return(to_dict(key, new), << >>, Backend)
                        ELSE Raise("IntegrityError",
                                   <<"UNIQUE constraint failed: memory_items.key">>,
                                   << >>, Backend))
    /\ UNCHANGED <<files, origin, engine, Session, served>>
    /\ Frame

\* ensure_script_dir: os.makedirs(SCRIPT_DIR, exist_ok=True)
MakeDirs(w) ==
    /\ workers[w].pc = "makedirs"
    /\ workers' = [workers EXCEPT ![w].pc = "script", ![w].i = 1]
    /\ UNCHANGED <<table, files, origin, engine, Session, served>>
    /\ Frame

\* ensure_script_dir: `if not script.exists(): open(script, 'w')` for the
\* i-th script; the file is there, and empty, once it is opened.
OpenScript(w) ==
    /\ workers[w].pc = "script"
    /\ LET i == workers[w].i
       IN IF files[i] = "absent"
          THEN /\ files' = [files EXCEPT ![i] = "open"]
               /\ workers' = [workers EXCEPT ![w].pc = "write"]
          ELSE /\ files' = files
               /\ workers' = [workers EXCEPT
                                 ![w].pc = IF i = Len(ScriptNames) THEN "run" ELSE "script",
                                 ![w].i = IF i = Len(ScriptNames) THEN i ELSE i + 1]
    /\ UNCHANGED <<table, origin, engine, Session, served>>
    /\ Frame

\* ensure_script_dir: f.write(...) and the end of the with block; the text
\* is in the file when it is closed.
WriteScript(w) ==
    /\ workers[w].pc = "write"
    /\ LET i == workers[w].i
       IN /\ files' = [files EXCEPT ![i] = "complete"]
          /\ workers' = [workers EXCEPT
                            ![w].pc = IF i = Len(ScriptNames) THEN "run" ELSE "script",
                            ![w].i = IF i = Len(ScriptNames) THEN i ELSE i + 1]
    /\ UNCHANGED <<table, origin, engine, Session, served>>
    /\ Frame

\* The handler of the action: node runs the script as it is on disk.  An
\* empty script exits 0 and prints nothing, which json.loads refuses.
RunNode(w) ==
    /\ workers[w].pc = "run"
    /\ LET me == workers[w]
           e  == IF files[ScriptOf(me.body.action)] = "complete" THEN me.e
                 ELSE [me.e EXCEPT !.proc = "bad_stdout"]
       IN workers' = Finished(w, Handler("puppeteer", me.body.action, me.body.params, e,
                                         [Backend EXCEPT !.scripts = TRUE]))
    /\ UNCHANGED <<table, files, origin, engine, Session, served>>
    /\ Frame

\* A tool without state of its own: the whole dispatch is one step.
Call(w) ==
    /\ workers[w].pc = "call"
    /\ workers' = [workers EXCEPT ![w].pc = "done",
                       ![w].out = mcp_gateway(workers[w].body, workers[w].e, Backend).out]
    /\ UNCHANGED <<table, files, origin, engine, Session, served>>
    /\ Frame

\* The responses are sent and the threads wait for the next requests.
Finish ==
    /\ Busy # {}
    /\ \A w \in Busy : workers[w].pc = "done"
    /\ workers' = [w \in Workers |-> IdleWorker]
    /\ UNCHANGED <<table, files, origin, engine, Session, served>>
    /\ Frame

NextConcurrent ==
    \/ Accept
    \/ \E w \in Workers : QueryItem(w)
    \/ \E w \in Workers : Commit(w)
    \/ \E w \in Workers : MakeDirs(w)
    \/ \E w \in Workers : OpenScript(w)
    \/ \E w \in Workers : WriteScript(w)
    \/ \E w \in Workers : RunNode(w)
    \/ \E w \in Workers : Call(w)
    \/ Finish

SpecConcurrent == Init /\ [][NextConcurrent]_vars

\* ------------------------------------------------- lazy initialisation
\* Two threads call handle_action of the memory tool in a process in which
\* before_first_request has not run, the case the handlers' own test
\* `if engine is None` is written for.  initialize_db is its three
\* statements, and the handler's `session = Session()` a step of its own.
LazyBodies ==
    {ConcBody("memory", "set", [key |-> "x", value |-> v]) : v \in {"x", "y"}}
    \cup {ConcBody("memory", a, [key |-> "x"]) : a \in {"get", "delete"}}
LazyFrame ==
    /\ UNCHANGED <<table, files, origin, served>>
    /\ Frame

\* the handlers are called: one thread or both enter get_memory, set_memory
\* or delete_memory
CallHandler ==
    /\ Busy = {}
    /\ origin.round < MaxRounds
    /\ \E ws \in SUBSET Workers : \E bs \in [ws -> LazyBodies] :
         /\ ws # {}
         /\ workers' = [w \in Workers |->
                IF w \in ws
                THEN [pc |-> "check", body |-> bs[w], e |-> EnvQuiet(now),
                      item |-> 0, i |-> 1, out |-> NoOutcome]
                ELSE IdleWorker]
    /\ origin' = [table |-> table, files |-> files, round |-> origin.round + 1]
    /\ UNCHANGED <<table, files, engine, Session, served>>
    /\ Frame

\* `if engine is None:`
CheckEngine(w) ==
    /\ workers[w].pc = "check"
    /\ workers' = [workers EXCEPT ![w].pc = IF engine THEN "session" ELSE "create_engine"]
    /\ UNCHANGED <<engine, Session>>
    /\ LazyFrame

\* initialize_db: engine = create_engine(app.config['MEMORY_DB_URI'])
CreateEngine(w) ==
    /\ workers[w].pc = "create_engine"
    /\ engine' = TRUE
    /\ workers' = [workers EXCEPT ![w].pc = "create_all"]
    /\ UNCHANGED Session
    /\ LazyFrame

\* initialize_db: Base.metadata.create_all(engine)
CreateAll(w) ==
    /\ workers[w].pc = "create_all"
    /\ workers' = [workers EXCEPT ![w].pc = "sessionmaker"]
    /\ UNCHANGED <<engine, Session>>
    /\ LazyFrame

\* initialize_db: Session = sessionmaker(bind=engine)
MakeSession(w) ==
    /\ workers[w].pc = "sessionmaker"
    /\ Session' = TRUE
    /\ workers' = [workers EXCEPT ![w].pc = "session"]
    /\ UNCHANGED engine
    /\ LazyFrame

\* `session = Session()`: calling None raises TypeError
OpenSession(w) ==
    /\ workers[w].pc = "session"
    /\ workers' = IF Session THEN [workers EXCEPT ![w].pc = "query"]
                  ELSE Finished(w, Raise("TypeError",
                                         <<"'NoneType' object is not callable">>,
                                         << >>, Backend))
    /\ UNCHANGED <<engine, Session>>
    /\ LazyFrame

NextLazyInit ==
    \/ CallHandler
    \/ \E w \in Workers : CheckEngine(w)
    \/ \E w \in Workers : CreateEngine(w)
    \/ \E w \in Workers : CreateAll(w)
    \/ \E w \in Workers : MakeSession(w)
    \/ \E w \in Workers : OpenSession(w)
    \/ \E w \in Workers : QueryItem(w)
    \/ \E w \in Workers : Commit(w)
    \/ Finish

SpecLazyInit == Init /\ [][NextLazyInit]_vars

\* ------------------------------------------------------ direct endpoints
\* The routes /tool/memory/<action> and /tool/puppeteer/<action>: each calls
\* the handler itself inside try / except Exception.  The memory routes
\* build the parameters dict from the query string or the JSON body, where
\* a name that was not given arrives as None or as the handler's own
\* default; the puppeteer routes pass the JSON body on as it is.
DirectTools == {"memory", "puppeteer"}
api_call(tool, action, p, e, st) ==
    LET r == Handler(tool, action, p, e, st)
    IN IF r.how = "return"
       THEN Done([kind |-> "response", http |-> 200, etype |-> "", body |-> r.value],
                 <<"handler">> \o r.fx, r.st)
       ELSE IF tool = "puppeteer"
       THEN Done([kind |-> "response", http |-> 400, etype |-> "",
                  body |-> [success |-> FALSE, error |-> r.msg]],
                 <<"handler">> \o r.fx, r.st)
       ELSE Done([kind |-> "response", http |-> 400, etype |-> "",
                  body |-> [error |-> r.msg]],
                 <<"handler">> \o r.fx, r.st)

DirectCall ==
    /\ Idle
    /\ \E tool \in DirectTools : \E action \in action_handlers(tool) :
       \E p \in ParamDicts(tool, action) : \E e \in EnvsFor(tool, now, store) :
         LET body == [json |-> "object", tool |-> tool, action |-> action,
                      pkind |-> "dict", params |-> p, other |-> FALSE]
             r    == api_call(tool, action, p, e, before_first_request(Backend))
         IN /\ Canonical(body, e, r.fx)
            /\ request' = [endpoint |-> "direct", body |-> body]
            /\ env' = e
            /\ outcome' = r.out
            /\ effects' = HookFx \o r.fx
            /\ store' = r.st.store
            /\ engine' = r.st.engine
            /\ Session' = r.st.engine
            /\ scripts' = r.st.scripts
            /\ served' = TRUE
            /\ UNCHANGED <<now, conc>>

\* The server with its gateway and the direct endpoints of the two tools.
NextDirect == Gateway \/ DirectCall \/ Reply

SpecDirect == Init /\ [][NextDirect]_vars

\* ====================================================================
\* Properties
\* ====================================================================
IsGateway   == request.endpoint = "gateway"
IsObject    == IsGateway /\ request.body.json = "object"
ToolName    == IF request.body.tool = Absent THEN JNull ELSE request.body.tool
ActionName  == IF request.body.action = Absent THEN JNull ELSE request.body.action
IsResponse  == outcome.kind = "response"
\* the response body is an envelope: it has a status field
IsEnvelope  == IsResponse /\ "status" \in DOMAIN outcome.body
IsSuccess   == IsEnvelope /\ outcome.body.status = "success"
IsError     == IsEnvelope /\ outcome.body.status = "error"
\* the kind of an error envelope: the type of its error object
ErrorKind   == IF IsError /\ "error" \in DOMAIN outcome.body /\ outcome.body.error.t = "obj"
               THEN outcome.body.error.type ELSE "<none>"
\* a dispatch that names a tool and an action
Dispatched  == IsObject /\ Truthy(ToolName) /\ Truthy(ActionName)
\* ... a tool of the gateway and an action of its table, with a dict of parameters
Resolved    == /\ Dispatched
               /\ ToolName \in GatewayTools
               /\ ActionName # JList
               /\ ActionName \in action_handlers(ToolName)
               /\ request.body.pkind \in {"dict", "absent"}

\* C1: every gateway request, whatever its body, ends in a response of
\* mcp_gateway; no exception leaves the function.
C1_AlwaysResponse == IsGateway => IsResponse

C3_HandlersListedOnce ==
    (request.endpoint = "manifest" /\ IsResponse) =>
        \A t \in GatewayTools : \A a \in action_handlers(t) :
            CountIn(outcome.body.tools, t, a) = 1

\* C4: a dispatch of a (tool, action) pair the manifest advertises never ends
\* in the unknown-tool response nor in the unknown-action error, and the
\* tools of the returned manifest are exactly the tools of the gateway.
C4_ManifestResolvable ==
    /\ (Dispatched /\ ToolName \in ManifestTools /\ ActionName \in ManifestActions(ToolName)) =>
          /\ IsResponse
          /\ outcome.http # 404
          /\ ~(IsError /\ outcome.body.error.message = <<"Unknown action: ", ActionName>>)
          /\ Touches(effects, {"lookup"})
    /\ (request.endpoint = "manifest" /\ IsResponse) =>
          DOMAIN outcome.body.tools = GatewayTools
C4_Witness ==
    /\ Dispatched /\ ToolName = "github" /\ ActionName = "getRepo"
    /\ IsSuccess

\* The `if not ...: raise ValueError(...)` tests of each handler, in source
\* order: the parameters a test insists on and the message it raises.
Chk(ps, m) == [params |-> ps, msg |-> m]
OwnerRepo == Chk({"owner", "repo"}, "Owner and repo parameters are required")
ProjectId == Chk({"projectId"}, "Project ID parameter is required")
Title     == Chk({"title"}, "Title parameter is required")
Query     == Chk({"query"}, "Query parameter is required")
Url       == Chk({"url"}, "URL parameter is required")
Key       == Chk({"key"}, "Key parameter is required")
RequiredChecks(tool, action) ==
    CASE tool = "github" /\ action = "listRepos" ->
            <<Chk({"username"}, "Username parameter is required")>>
      [] tool = "github" /\ action \in {"getRepo", "getIssues"} -> <<OwnerRepo>>
      [] tool = "github" /\ action = "searchRepos" -> <<Query>>
      [] tool = "github" /\ action = "createIssue" -> <<OwnerRepo, Title>>
      [] tool = "gitlab" /\ action \in {"getProject", "getIssues", "getPipelines"} ->
            <<ProjectId>>
      [] tool = "gitlab" /\ action = "searchProjects" -> <<Query>>
      [] tool = "gitlab" /\ action = "createIssue" -> <<ProjectId, Title>>
      [] tool = "gmaps" /\ action = "geocode" ->
            <<Chk({"address"}, "Address parameter is required")>>
      [] tool = "gmaps" /\ action = "reverseGeocode" ->
            <<Chk({"lat", "lng"}, "Latitude and longitude parameters are required")>>
      [] tool = "gmaps" /\ action = "getDirections" ->
            <<Chk({"origin", "destination"}, "Origin and destination parameters are required")>>
      [] tool = "gmaps" /\ action = "getPlaceDetails" ->
            <<Chk({"placeId"}, "Place ID parameter is required")>>
      [] tool = "memory" /\ action \in {"get", "delete"} -> <<Key>>
      [] tool = "memory" /\ action = "search" ->
            <<Chk({"q"}, "Query parameter is required")>>
      [] tool = "puppeteer" /\ action \in {"screenshot", "pdf", "extract"} -> <<Url>>
      [] OTHER -> << >>
\* the tests of the request's action that its parameters fail
FailedChecks ==
    {i \in DOMAIN RequiredChecks(ToolName, ActionName) :
        \E k \in RequiredChecks(ToolName, ActionName)[i].params :
            ~Truthy(Get(request.body.params, k))}
FirstFailed == CHOOSE i \in FailedChecks : \A j \in FailedChecks : i <= j
HasRequired == Resolved /\ RequiredChecks(ToolName, ActionName) # << >>

C6_AlwaysMissingTool ==
    (IsObject /\ ~Truthy(ToolName)) =>
        /\ outcome = Flat(<<"Tool name is required">>, 400)
        /\ ~Touches(effects, {"lookup", "handler"})

\* C6 (amended): a dispatch whose tool is empty or absent yields the 400
\* response {"error": "Tool name is required"} whatever `action` and
\* `parameters` are, except that the object without any key yields the 400
\* response {"error": "Request body is required"}; in both cases no tool is
\* looked up, no handler is invoked and no backend is touched.
C6_MissingTool ==
    (IsObject /\ ~Truthy(ToolName)) =>
        /\ outcome = IF IsEmptyObject(request.body)
                     THEN Flat(<<"Request body is required">>, 400)
                     ELSE Flat(<<"Tool name is required">>, 400)
        /\ ~Touches(effects, {"lookup", "handler"} \cup BackendEffects)
C6_Witness ==
    /\ IsObject /\ request.body.tool = JEmpty /\ request.body.action = "nosuch"
    /\ outcome = Flat(<<"Tool name is required">>, 400)

\* a dispatch that lacks its tool or its action
MissingField == IsObject /\ (~Truthy(ToolName) \/ ~Truthy(ActionName))

\* C7 (as claimed): when tool or action is missing the response is an
\* envelope with tool and action echoed, status "error" and an error object
\* of a type and a message, with a 4xx status.
C7_EnvelopeAsClaimed ==
    MissingField =>
        /\ IsResponse
        /\ {"tool", "action", "status", "error"} \subseteq DOMAIN outcome.body
        /\ outcome.body.tool = ToolName /\ outcome.body.action = ActionName
        /\ outcome.body.status = "error"
        /\ outcome.body.error.t = "obj"
        /\ outcome.http \in 400..499

\* C7 (amended): when tool or action is missing the response has status 400
\* and the body {"error": <message>} and nothing else: no tool, action or
\* status field, and the error is a string, not a {type, message} object.
\* The message is "Request body is required" for the object without keys,
\* else "Tool name is required" when the tool is missing, else "Action is
\* required".
C7_MissingFieldResponse ==
    MissingField =>
        /\ IsResponse /\ outcome.http = 400
        /\ DOMAIN outcome.body = {"error"}
        /\ outcome.body.error.t = "str"
        /\ outcome.body.error.s =
              IF IsEmptyObject(request.body) THEN <<"Request body is required">>
              ELSE IF ~Truthy(ToolName) THEN <<"Tool name is required">>
              ELSE <<"Action is required">>
C7_Witness ==
    /\ IsObject /\ ToolName = "memory" /\ request.body.action = Absent
    /\ outcome = Flat(<<"Action is required">>, 400)

\* the body carries exactly one of result / error, as its status says
WellFormedEnvelope ==
    /\ outcome.body.status \in {"success", "error"}
    /\ ("result" \in DOMAIN outcome.body) <=> (outcome.body.status = "success")
    /\ ("error" \in DOMAIN outcome.body) <=> (outcome.body.status = "error")
    /\ ("error" \in DOMAIN outcome.body) =>
          /\ outcome.body.error.t = "obj"
          /\ {"type", "message"} \subseteq DOMAIN outcome.body.error

\* C8 (as claimed): every response of the gateway carries a status, and a
\* result exactly on success, an error object exactly on error.
C8_EveryResponseEnvelope ==
    (IsGateway /\ IsResponse) => (IsEnvelope /\ WellFormedEnvelope)

\* C8 (amended): every response of the gateway with status 200 or 500 is an
\* envelope with status success or error, a result exactly on success and an
\* error {type, message} exactly on error; the responses with status 400 and
\* 404 are no envelopes: they carry a flat error string and no status.
C8_Envelopes ==
    (IsGateway /\ IsResponse) =>
        IF outcome.http \in {200, 500}
        THEN IsEnvelope /\ WellFormedEnvelope
        ELSE /\ outcome.http \in {400, 404}
             /\ DOMAIN outcome.body = {"error"}
             /\ outcome.body.error.t = "str"
C8_Witness ==
    /\ IsGateway /\ IsError /\ WellFormedEnvelope
    /\ ToolName = "github" /\ ErrorKind = "Exception"

\* the backend the request consulted failed: the upstream could not be
\* reached or answered outside 2xx or with an unreadable body, the node
\* subprocess failed, crashed or left unreadable output, the database failed
BackendFault ==
    \/ ~env.http.net \/ env.http.status \notin 200..299 \/ ~env.http.json
    \/ env.db # "ok"
    \/ env.proc \notin {"ok", "no_file"}
    \/ (env.proc = "no_file" /\ ActionName # "extract")

\* C9: a dispatch has status success only if the backend operation
\* succeeded, so a successful screenshot dispatch has base64Image in its
\* result.
C9_SuccessMeansBackendOk ==
    (IsGateway /\ IsSuccess) =>
        /\ ~BackendFault
        /\ (ToolName = "puppeteer" /\ ActionName = "screenshot")
              => "base64Image" \in DOMAIN outcome.body.result

\* the tool is named but is none of the gateway's
UnknownTool == Dispatched /\ ToolName \notin GatewayTools

\* C10 (as claimed): the status is 200 exactly on success, 500 on a handler
\* failure and on an unknown tool, 400 on a missing tool or action, and
\* nothing else.
C10_StatusAsClaimed ==
    (IsGateway /\ IsResponse) =>
        /\ (outcome.http = 200) <=> IsSuccess
        /\ (IsError \/ UnknownTool) => outcome.http = 500
        /\ MissingField => outcome.http = 400
        /\ outcome.http \in {200, 400, 500}

\* C10 (amended): the status is 200 exactly on success, 500 exactly on an
\* error envelope (a handler failure), 404 exactly on an unknown tool, 400
\* exactly when the body is empty or lacks tool or action, and nothing else.
C10_StatusCodes ==
    (IsGateway /\ IsResponse) =>
        /\ (outcome.http = 200) <=> IsSuccess
        /\ (outcome.http = 500) <=> IsError
        /\ (outcome.http = 404) <=> UnknownTool
        /\ (outcome.http = 400) <=> (NotData(request.body) \/ MissingField)
        /\ outcome.http \in {200, 400, 404, 500}
C10_Witness ==
    /\ UnknownTool /\ ToolName = "nosuch" /\ ActionName = "get"
    /\ outcome.http = 404

\* ------------------------------------------------------------ memory tool
\* the request in flight is a memory dispatch of action a with a dict
MemOp(a) == Resolved /\ ToolName = "memory" /\ ActionName = a
ReqKey   == Get(request.body.params, "key")
ReqValue == Get(request.body.params, "value")
\* get(key=k) dispatched in the state st, the database answering
GetAfter(k, st) == get_memory([key |-> k], EnvQuiet(now), st)

\* C11: after a successful set(key=k, value=v) a get(key=k) returns the value
\* v and the timestamps; when k was stored before, created_at is unchanged
\* and updated_at is not smaller than before.
C11_RoundTrip ==
    [][(Idle /\ MemOp("set")' /\ Truthy(ReqKey') /\ IsSuccess') =>
          LET k == ReqKey'
              g == GetAfter(k, Backend')
          IN /\ g.how = "return"
             /\ g.value.value = ReqValue'
             /\ g.value.created_at = outcome'.body.result.created_at
             /\ g.value.updated_at = outcome'.body.result.updated_at
             /\ k \in DOMAIN store =>
                   /\ store'[k].created_at = store[k].created_at
                   /\ store'[k].updated_at >= store[k].updated_at]_vars

C19_ReadsAreReadOnly ==
    [][(Idle /\ (MemOp("get")' \/ MemOp("list")' \/ MemOp("search")')) =>
          /\ store' = store
          /\ mcp_gateway(request'.body, env', Backend').out = outcome'
          /\ mcp_gateway(request'.body, env', Backend').st.store = store']_vars
\* a read has returned stored items
C19_Witness ==
    /\ MemOp("list") /\ IsSuccess
    /\ Len(outcome.body.result.items) = 1 /\ Cardinality(DOMAIN store) = 2

\* --------------------------------------------------------------- manifest
IsManifest == request.endpoint = "manifest"
\* the error envelope of handle_action for an action that is not in its table
UnknownActionError ==
    /\ ErrorKind = "ValueError"
    /\ outcome.body.error.message = <<"Unknown action: ", ActionName>>

\* C15: every answer of mcp_manifest is the same fixed document, whatever
\* the gateway has dispatched before (the store, the engine and the script
\* directory may be in any state), and a dispatch is answered "Unknown
\* action" exactly for the actions outside the handler tables in every such
\* state.
C15_ManifestPure ==
    /\ IsManifest =>
          outcome = [kind |-> "response", http |-> 200, etype |-> "",
                     body |-> [manifestVersion |-> "1.0", tools |-> mcp_manifest]]
    /\ (Dispatched /\ ToolName \in GatewayTools /\ ActionName # JList) =>
          /\ ActionName \in action_handlers(ToolName) => ~UnknownActionError
          /\ (ActionName \notin action_handlers(ToolName) /\ env.fs = "ok")
                => UnknownActionError
\* the manifest is served after memory items were stored and the scripts
\* were written
C15_Witness == IsManifest /\ DOMAIN store # {} /\ scripts /\ engine

\* -------------------------------------------------------------- puppeteer
\* C16: take_screenshot and generate_pdf leave no temporary file behind,
\* whatever the subprocess did.
C16_TempFileReleased ==
    (IsGateway /\ Touches(effects, {"tmpfile_create"})) => TmpLeft(effects) = 0
\* the subprocess failed after the temporary file was created
C16_Witness ==
    /\ IsGateway /\ ActionName \in {"screenshot", "pdf"}
    /\ Touches(effects, {"tmpfile_create"})
    /\ env.proc \in {"fail_json", "fail_raw", "no_node", "bad_stdout", "no_file"}

\* ------------------------------------------------------------ side effects
\* the dispatch in flight fails at tool resolution, at action resolution or
\* at a required-parameter test
FailsEarly ==
    /\ Dispatched /\ ActionName # JList
    /\ \/ ToolName \notin GatewayTools
       \/ ToolName \in GatewayTools /\ ActionName \notin action_handlers(ToolName)
       \/ HasRequired /\ FailedChecks # {}
SideEffects == {"http", "session_open", "query", "commit", "makedirs",
                "write_scripts", "tmpfile_create", "subprocess"}

\* C18: a dispatch that fails at tool resolution, action resolution or
\* parameter validation has made no network call, opened no database
\* session, created no file and started no subprocess.
C18_NoEffectBeforeFailure == FailsEarly => ~Touches(effects, SideEffects)

\* ------------------------------------------------------- direct endpoints
IsDirect == request.endpoint = "direct"

\* C17: a direct endpoint does what the gateway does for the same action,
\* parameters and environment from the same state: it answers 200 exactly
\* when the gateway answers status success, its body is then the gateway's
\* result, it leaves the backend in the same state, and it answers 400 on
\* every failure.
C17_DirectLikeGateway ==
    [][(Idle /\ IsDirect') =>
          LET g == mcp_gateway(request'.body, env', before_first_request(Backend))
              ok == g.out.kind = "response" /\ g.out.http = 200
          IN /\ (outcome'.http = 200) <=> ok
             /\ ok => outcome'.body = g.out.body.result
             /\ ~ok => outcome'.http = 400
             /\ Backend' = g.st]_vars

\* ---------------------------------------------------- concurrent requests
\* both threads have taken a request and have its response
BothDone == \A w \in Workers : workers[w].pc = "done"
\* the backend as it was when the threads took their requests
OriginState ==
    [store |-> AsStore(origin.table), engine |-> TRUE,
     scripts |-> \A i \in DOMAIN ScriptNames : origin.files[i] = "complete"]
\* thread w's dispatch run alone from the state st
Alone(w, st) == mcp_gateway(workers[w].body, workers[w].e, st)
\* the threads' responses and the table are those of the dispatch of thread
\* a followed by the dispatch of thread b
InOrder(a, b) ==
    LET g1 == Alone(a, OriginState)
        g2 == Alone(b, g1.st)
    IN /\ workers[a].out = g1.out
       /\ workers[b].out = g2.out
       /\ AsStore(table) = g2.st.store
OnKeyX(w, actions) ==
    /\ workers[w].body.tool = "memory"
    /\ workers[w].body.action \in actions
    /\ Get(workers[w].body.params, "key") = "x"
\* a set of the key "x" ran concurrently with a set or a delete of it
SetRace ==
    /\ BothDone
    /\ \E a, b \in Workers :
          a # b /\ OnKeyX(a, {"set"}) /\ OnKeyX(b, {"set", "delete"})

\* C13: when a set of a key runs concurrently with a set or a delete of the
\* same key, every set succeeds, the key has at most one item, and the
\* responses and the table are those of one of the two sequential orders.
C13_SetIsRaceFree ==
    SetRace =>
        /\ \A w \in Workers :
              workers[w].body.action = "set" => workers[w].out.body.status = "success"
        /\ Cardinality(RowsWithKey(table, "x")) <= 1
        /\ InOrder(1, 2) \/ InOrder(2, 1)

\* the two dispatches are on different (tool, action) pairs, not both on
\* the memory store
Unrelated ==
    /\ <<workers[1].body.tool, workers[1].body.action>>
          # <<workers[2].body.tool, workers[2].body.action>>
    /\ ~(workers[1].body.tool = "memory" /\ workers[2].body.tool = "memory")

\* C14: two concurrent dispatches on unrelated (tool, action) pairs each
\* return the envelope they return when run alone from the same state.
C14_NoInterference ==
    (BothDone /\ Unrelated) =>
        \A w \in Workers : workers[w].out = Alone(w, OriginState).out

\* C20: every row of memory_items has a non-empty key, and no two rows have
\* the same key, in every state that sets and deletes, one after another or
\* interleaved, with or without a key, can reach.
C20_KeysUniqueNonEmpty ==
    /\ \A r \in table : Truthy(r.key) /\ r.key # Absent
    /\ \A r1, r2 \in table : r1.key = r2.key => r1 = r2
\* two concurrent sets of a key that was not stored: one of them was refused
\* by the index, and an item with a generated key is stored beside it
C20_Witness ==
    /\ BothDone
    /\ \A w \in Workers : OnKeyX(w, {"set"})
    /\ \E w \in Workers : workers[w].out.body.status = "error"
    /\ RowsWithKey(origin.table, "x") = {}
    /\ \E r \in table : r.key \in Uuids

\* ------------------------------------------------------ memory lifecycle
\* the key a successful set or delete has just acted on: the key the set
\* returns (the given one or the generated one), the key the delete names
Mutation ==
    IF MemOp("set") /\ IsSuccess THEN {outcome.body.result.key}
    ELSE IF MemOp("delete") /\ IsSuccess THEN {ReqKey}
    ELSE {}

\* C21: in every step of the memory tool, a successful set leaves an item
\* under its key and a successful delete leaves none; every other key has
\* the item it had before, or none as before: no item appears without a set
\* of its key, none disappears without a delete of its key, and a failed
\* operation changes nothing.  Over a sequence of operations from the empty
\* store, an item for k therefore exists exactly when the last successful
\* mutation of k was a set.
C21_Lifecycle ==
    [][Idle =>
          /\ (MemOp("set")' /\ IsSuccess') => Mutation' \subseteq DOMAIN store'
          /\ (MemOp("delete")' /\ IsSuccess') => Mutation' \cap DOMAIN store' = {}
          /\ \A k \in (DOMAIN store \cup DOMAIN store') \ Mutation' :
                /\ k \in DOMAIN store /\ k \in DOMAIN store'
                /\ store'[k] = store[k]]_vars
\* a set has just created the item of "x" beside an item stored earlier
C21_Witness ==
    /\ MemOp("set") /\ IsSuccess /\ ReqKey = "x"
    /\ store["x"].created_at = now /\ now = MaxClock
    /\ \E k \in DOMAIN store : k # "x" /\ store[k].created_at < now

\* ------------------------------------------------------------ error kinds
ErrorMessage == outcome.body.error.message
\* why the dispatch in flight failed
FailureClass ==
    IF ~(IsGateway /\ IsError /\ ErrorKind # "<none>") THEN "none"
    ELSE IF ErrorMessage = <<"Unknown action: ", ActionName>> THEN "unknown_action"
    ELSE IF /\ HasRequired /\ FailedChecks # {}
            /\ ErrorMessage = <<RequiredChecks(ToolName, ActionName)[FirstFailed].msg>>
    THEN "missing_parameter"
    ELSE IF /\ MemOp("get") \/ MemOp("delete")
            /\ ErrorMessage = <<"Memory item with key '", ReqKey, "' not found">>
    THEN "not_found"
    ELSE IF Touches(effects, BackendEffects) /\ BackendFault THEN "backend"
    ELSE "other"
Taxonomy(class) ==
    CASE class = "unknown_action"    -> "UnknownAction"
      [] class = "missing_parameter" -> "InvalidParameters"
      [] class = "not_found"         -> "NotFound"
      [] class = "backend"           -> "BackendError"

\* C22: the kind of an error envelope is that of its failure class: an
\* unknown action yields UnknownAction, a required parameter missing in the
\* handler InvalidParameters, a memory item that is not stored NotFound and
\* a failing backend BackendError, four different kinds.
C22_KindPerClass ==
    FailureClass \in {"unknown_action", "missing_parameter", "not_found", "backend"} =>
        ErrorKind = Taxonomy(FailureClass)

\* the kinds the gateway gives an unknown action, a missing key and a key
\* that is not stored (memory tool, empty table)
KindOf(action, params) ==
    mcp_gateway([json |-> "object", tool |-> "memory", action |-> action,
                 pkind |-> "dict", params |-> params, other |-> FALSE],
                EnvQuiet(0), [store |-> << >>, engine |-> TRUE, scripts |-> TRUE]
               ).out.body.error.type
UnknownActionKind    == KindOf("nosuch", NoParams("memory", "get"))
MissingParameterKind == KindOf("get", NoParams("memory", "get"))
NotFoundKind         == KindOf("get", [NoParams("memory", "get") EXCEPT !.key = "x"])
\* C22 without the names: envelopes of different failure classes never
\* carry the same kind.
C22_KindsDiffer ==
    /\ FailureClass \in {"missing_parameter", "not_found", "backend"} =>
          ErrorKind # UnknownActionKind
    /\ FailureClass \in {"unknown_action", "not_found", "backend"} =>
          ErrorKind # MissingParameterKind
    /\ FailureClass \in {"unknown_action", "missing_parameter", "backend"} =>
          ErrorKind # NotFoundKind
\* what the code does: the kind is the class name of the exception, and the
\* first three classes all raise ValueError; a failing backend raises an
\* exception of another class
C22_KindIsExceptionClass ==
    /\ FailureClass \in {"unknown_action", "missing_parameter", "not_found"} =>
          ErrorKind = "ValueError"
    /\ FailureClass = "backend" => ErrorKind # "ValueError"

\* ---------------------------------------------------- one handler, once
\* how often the dispatch in flight entered a handler
Invocations(fx) == Cardinality({i \in DOMAIN fx : fx[i] = "handler"})
\* what the log shows after the (first) entry into a handler
AfterHandler(fx) ==
    LET i == CHOOSE j \in DOMAIN fx : fx[j] = "handler" /\ \A l \in 1..(j - 1) : fx[l] # "handler"
    IN SubSeq(fx, i + 1, Len(fx))
\* the state a handler of the tool starts in: after the hook of the first
\* request and, for puppeteer, after ensure_script_dir
HandlerStart(tool, e, st) ==
    IF tool = "puppeteer" THEN ensure_script_dir(e, before_first_request(st)).st
    ELSE before_first_request(st)

\* C23: a gateway dispatch enters at most one handler, at most once, and
\* only for an action of the tool's table.  When it does, with a dict of
\* parameters, the effects after the entry are those of one run of that
\* handler, the backend state is the one that run left, a success envelope
\* carries the value the run returned and an error envelope the exception it
\* raised: no second run follows a failure, no result precedes the return.
C23_OneHandlerOnce ==
    [][(Idle /\ IsGateway') =>
          /\ Invocations(effects') <= 1
          /\ IsSuccess' => Invocations(effects') = 1
          /\ Invocations(effects') = 1 =>
                /\ Dispatched' /\ ToolName' \in GatewayTools
                /\ ActionName' \in action_handlers(ToolName')
          /\ (Invocations(effects') = 1 /\ Resolved') =>
                LET h == Handler(ToolName', ActionName', request'.body.params, env',
                                 HandlerStart(ToolName', env', Backend))
                IN /\ AfterHandler(effects') = h.fx
                   /\ Backend' = h.st
                   /\ IF h.how = "return"
                      THEN IsSuccess' /\ outcome'.body.result = h.value
                      ELSE /\ ErrorKind' = h.etype
                           /\ outcome'.body.error.message = h.msg]_vars
\* a handler has failed at its backend after one call to it
C23_Witness ==
    /\ Resolved /\ ToolName = "gitlab" /\ IsError /\ ErrorKind = "ConnectionError"
    /\ Invocations(effects) = 1
    /\ AfterHandler(effects) = <<"http">>

\* ------------------------------------------------ order of the validation
\* the request in flight is a dispatch of an action the manifest declares
Declares == Resolved /\ ToolName \in ManifestTools /\ ActionName \in ManifestActions(ToolName)
\* the parameters of that action in the order the manifest declares them
Declared ==
    LET es == mcp_manifest[ToolName]
    IN es[CHOOSE i \in DOMAIN es : es[i].action = ActionName].parameters
\* the handler's tests that cover the parameter `name`
ChecksOf(name) ==
    {i \in DOMAIN RequiredChecks(ToolName, ActionName) :
        name \in RequiredChecks(ToolName, ActionName)[i].params}
\* the positions of the declared parameters the handler insists on and the
\* request leaves out (or gives a falsy value)
MissingRequired ==
    {i \in DOMAIN Declared :
        /\ ChecksOf(Declared[i].name) # {}
        /\ ~Truthy(Get(request.body.params, Declared[i].name))}
FirstMissing == CHOOSE i \in MissingRequired : \A j \in MissingRequired : i <= j
\* the parameter dicts that differ from the request's only in parameters
\* declared after position i
VariantsAfter(i) ==
    LET later == {Declared[j].name : j \in (i + 1)..Len(Declared)}
                    \cap DOMAIN request.body.params
    IN {d \in [DOMAIN request.body.params -> ReqVals \cup {request.body.params[k] :
                                                        k \in DOMAIN request.body.params}] :
           \A k \in DOMAIN d : k \notin later => d[k] = request.body.params[k]}

\* C24: when a dispatch leaves out several required parameters of a declared
\* action, the envelope carries one error, the ValueError of the test that
\* covers the first of them in the manifest's order, and the response is the
\* same whatever the parameters declared after that one hold.
C24_FailFastInOrder ==
    (Declares /\ Cardinality(MissingRequired) >= 2) =>
        LET name == Declared[FirstMissing].name
            c    == CHOOSE i \in ChecksOf(name) : TRUE
        IN /\ ErrorKind = "ValueError"
           /\ ErrorMessage = <<RequiredChecks(ToolName, ActionName)[c].msg>>
           /\ \A d \in VariantsAfter(FirstMissing) :
                 mcp_gateway([request.body EXCEPT !.params = d], env, Backend).out = outcome
\* createIssue without owner and without title, repo given
C24_Witness ==
    /\ Declares /\ ToolName = "github" /\ ActionName = "createIssue"
    /\ MissingRequired = {1, 3}
    /\ ErrorMessage = <<"Owner and repo parameters are required">>

\* --------------------------------------------------------------- defaults
\* the positions of the declared parameters that have a declared default
\* and that the request in flight leaves out
Defaulted ==
    {i \in DOMAIN Declared :
        Declared[i].default # Absent /\ ~Has(request.body.params, Declared[i].name)}
\* the parameters of the request with the declared default written out at
\* position i
WithDefault(i) ==
    [k \in DOMAIN request.body.params \cup {Declared[i].name} |->
        IF k = Declared[i].name THEN Declared[i].default ELSE request.body.params[k]]

\* the arguments the handler of (tool, action) hands its backend, for these
\* four handlers
BackendArgs(tool, action, p) ==
    CASE tool = "github" /\ action = "getIssues"       -> get_issues_params(p)
      [] tool = "gmaps" /\ action = "getDirections"    -> get_directions_params(p)
      [] tool = "puppeteer" /\ action = "screenshot"   -> screenshot_script_args(p)
      [] tool = "puppeteer" /\ action = "pdf"          -> pdf_script_args(p)
      [] OTHER -> << >>

\* C25: a dispatch that leaves out a parameter the manifest declares with a
\* default does what the dispatch that supplies that default does: the same
\* response, the same effects, the same backend state afterwards, and the
\* same arguments handed to the backend.
C25_DeclaredDefaults ==
    [][(Idle /\ Declares') =>
          \A i \in Defaulted' :
             LET r == mcp_gateway([request'.body EXCEPT !.params = WithDefault(i)'],
                                  env', before_first_request(Backend))
             IN /\ r.out = outcome'
                /\ r.st = Backend'
                /\ HookFx \o r.fx = effects'
                /\ BackendArgs(ToolName', ActionName', WithDefault(i)') =
                   BackendArgs(ToolName', ActionName', request'.body.params)]_vars
\* a screenshot without fullPage and without type has run
C25_Witness ==
    /\ Declares /\ ToolName = "puppeteer" /\ ActionName = "screenshot"
    /\ Cardinality(Defaulted) = 2 /\ IsSuccess
    /\ outcome.body.result.success

\* ----------------------------------------------------------- set, no key
\* C26: a successful set whose key is absent or empty stores one more item,
\* under the key uuid4 produced, which the response returns and which was
\* not a key of the table; every item stored before is still there,
\* unchanged.
C26_SetGeneratesKey ==
    [][(Idle /\ MemOp("set")' /\ ReqKey' \in {JNull, JEmpty} /\ IsSuccess') =>
          LET k == outcome'.body.result.key
          IN /\ k = env'.uuid /\ k \in Uuids
             /\ k \notin DOMAIN store
             /\ DOMAIN store' = DOMAIN store \cup {k}
             /\ Cardinality(DOMAIN store') = Cardinality(DOMAIN store) + 1
             /\ store'[k].value = TextCol(ReqValue')
             /\ \A o \in DOMAIN store : store'[o] = store[o]]_vars
\* a set with the empty key has added a second item to the table
C26_Witness ==
    /\ MemOp("set") /\ IsSuccess /\ request.body.params.key = JEmpty
    /\ outcome.body.result.key \in Uuids
    /\ "x" \in DOMAIN store /\ Cardinality(DOMAIN store) = 2

\* ------------------------------------------------------- undeclared keys
\* the keys the request gives that the manifest does not declare for its action
Undeclared ==
    {k \in DOMAIN request.body.params : Has(request.body.params, k)}
        \ {Declared[i].name : i \in DOMAIN Declared}
\* the parameters of the request without those keys
DeclaredOnly ==
    [k \in DOMAIN request.body.params |->
        IF k \in Undeclared THEN Absent ELSE request.body.params[k]]

\* C27: a dispatch of a declared action that carries undeclared keys is
\* answered as the dispatch without them is (so it is no validation error
\* when that one succeeds) and leaves the same backend state; the keys reach
\* the handler, and take_screenshot copies the ones it knows into the
\* arguments of its script.
C27_UndeclaredPassThrough ==
    [][(Idle /\ Declares' /\ Undeclared' # {}) =>
          LET r == mcp_gateway([request'.body EXCEPT !.params = DeclaredOnly'],
                               env', before_first_request(Backend))
          IN /\ r.out = outcome'
             /\ r.st = Backend'
             /\ HookFx \o r.fx = effects'
             /\ r.out.body.status = "success" => ErrorKind' # "ValueError"
             /\ (ToolName' = "puppeteer" /\ ActionName' = "screenshot") =>
                   \A k \in Undeclared' \cap {"waitForSelector", "waitTime", "viewport",
                                             "userAgent", "quality"} :
                      /\ k \in DOMAIN screenshot_script_args(request'.body.params).optional
                      /\ screenshot_script_args(request'.body.params).optional[k]
                            = request'.body.params[k]]_vars
\* listRepos with a key nobody declares has reached GitHub and succeeded
C27_Witness ==
    /\ Declares /\ ToolName = "github" /\ ActionName = "listRepos"
    /\ Undeclared = {"extra"} /\ IsSuccess
    /\ Touches(effects, {"http"})
\* a screenshot carrying the undeclared key quality has run
C27_WitnessScreenshot ==
    /\ Declares /\ ToolName = "puppeteer" /\ ActionName = "screenshot"
    /\ Undeclared = {"quality"} /\ IsSuccess /\ outcome.body.result.success

C28_TypeError ==
    \E w \in Workers :
        /\ workers[w].pc = "done"
        /\ workers[w].out.body.status = "error"
        /\ workers[w].out.body.error.type = "TypeError"

\* --------------------------------------------------------------- sessions
\* how often the effects log has the entry x
Count(fx, x) == Cardinality({i \in DOMAIN fx : fx[i] = x})

\* C29: when a dispatch of the memory tool has returned or raised, every
\* session it opened has been closed.
C29_SessionClosedOnExit ==
    (IsGateway /\ ToolName = "memory") =>
        Count(effects, "session_open") = Count(effects, "session_close")
\* what the code does: the session is closed when the handler returns and
\* when get or delete find no item, and left open when the query or the
\* commit raises
C29_ClosedUnlessDatabaseRaises ==
    (IsGateway /\ ToolName = "memory" /\ Touches(effects, {"session_open"})) =>
        /\ Count(effects, "session_open") = 1
        /\ Count(effects, "session_close") =
              IF ErrorKind = "OperationalError" THEN 0 ELSE 1

\* ------------------------------------------------------------- pagination
\* the string s contains the string f, character for character
Contains(s, f) ==
    \E i \in 1..(Len(Chars(s)) + 1) :
        /\ i + Len(Chars(f)) - 1 <= Len(Chars(s))
        /\ SubSeq(Chars(s), i, i + Len(Chars(f)) - 1) = Chars(f)
Min(a, b) == IF a < b THEN a ELSE b
Max(a, b) == IF a < b THEN b ELSE a
FilterKey == Get(request.body.params, "filterKey")
\* a list with limit >= 0 and offset >= 0 has returned
Listed ==
    /\ MemOp("list") /\ IsSuccess
    /\ outcome.body.result.limit >= 0 /\ outcome.body.result.offset >= 0
\* the response of a list whose filter selects the keys in `matching`
PageOf(matching) ==
    LET res == outcome.body.result
    IN /\ res.total = Cardinality(matching)
       /\ {res.items[i].key : i \in DOMAIN res.items} \subseteq matching
       /\ Len(res.items) = Min(res.limit, Max(0, res.total - res.offset))

\* C30: a list with limit >= 0 and offset >= 0 returns as total the number
\* of items whose key contains the filter (of all items without a filter),
\* whatever limit and offset are; the items returned are among those, and
\* there are min(limit, max(0, total - offset)) of them.
C30_ListPagination ==
    Listed => PageOf({k \in DOMAIN store : Truthy(FilterKey) => Contains(k, FilterKey)})
\* what the code does: the same with the keys that match the SQL pattern
\* %filter% in place of the keys that contain the filter
C30_ListPaginationLike ==
    Listed => PageOf({k \in DOMAIN store : Truthy(FilterKey) => Like(k, FilterKey)})
\* a list filtered by "u" has skipped the one item that matches, and a list
\* filtered by "_" has counted an item
C30_PageBeyondTotal ==
    /\ Listed /\ FilterKey = "u" /\ Cardinality(DOMAIN store) = 2
    /\ outcome.body.result.total = 1 /\ outcome.body.result.offset = 1
    /\ outcome.body.result.items = << >>
C30_WildcardCounted ==
    /\ Listed /\ FilterKey = "_" /\ outcome.body.result.total > 0

====
